---- MODULE Spec2Model ----
(***************************************************************************)
(* Conditional (ETag / If-None-Match) fetch layer of ticket-tagger:        *)
(* CacheKeyComputer, AuthorizationCacheKeyComputer, GitHubClient._fetch    *)
(* and the CacheRecord collection, as written in src/src/Github.ts and     *)
(* src/src/entities/index.ts.                                              *)
(*                                                                         *)
(* Strings whose content matters (urls, header values, etags, cache keys)  *)
(* are sequences of one-character strings, so that hash.update(a);         *)
(* hash.update(b) is the concatenation a \o b.  The md5 digest is taken    *)
(* to be injective: a cache key is the byte string fed to the hash.        *)
(***************************************************************************)
EXTENDS Integers, Sequences, FiniteSets, TLC

(* ----------------------------- bounds ---------------------------------- *)

MaxVer == 1

MaxCalls == 4

\* connections one run of the application sees
MaxConns == 3

(* ----------------------------- values ---------------------------------- *)

\* the concurrent callers of _fetch
Procs == {1, 2}

\* null / undefined for a string-valued expression
NullStr == <<"null">>

\* JavaScript truthiness of a string-or-null value: null and "" are falsy
Truthy(s) == s # NullStr /\ s # <<>>

U1 == <<"/", "a">>

U2 == <<"/", "b">>

U3 == <<"/", "a", "t">>

\* urls the key computers are applied to
Urls == {U1, U2, U3}

\* url the clients read
FetchUrls == {U1}

\* access tokens held by the clients
OAuthTokens == {<<"x">>}

InstallationTokens == {<<"p">>, <<"q">>}

NoPayload == [url |-> <<>>, ver |-> -1]

NoRec == [id |-> 0, key |-> <<>>, etag |-> NullStr, payload |-> NoPayload]

NoResp == [status |-> 0, etag |-> NullStr, payload |-> NoPayload]

NoHeaders == [rep |-> "none", entries |-> <<>>]

Pending == [kind |-> "pending", payload |-> NoPayload]

Raise == [kind |-> "raise", payload |-> NoPayload]

Return(payload) == [kind |-> "return", payload |-> payload]

(* ------------------------ cache key computation ------------------------ *)

\* String.prototype.toLocaleLowerCase on the header names in use
ToLocaleLowerCase(name) ==
    CASE name = "Authorization" -> "authorization"
      [] name = "AUTHORIZATION" -> "authorization"
      [] name = "Accept" -> "accept"
      [] OTHER -> name

RECURSIVE Join(_, _)
\* Array.prototype.join
Join(vals, sep) ==
    IF Len(vals) = 0 THEN <<>>
    ELSE IF Len(vals) = 1 THEN Head(vals)
    ELSE Head(vals) \o sep \o Join(Tail(vals), sep)

\* Array.prototype.find over the header entries: index of the first entry
\* whose lower-cased name is "authorization", 0 when there is none
FindAuthorizationHeader(entries) ==
    LET hits == {i \in 1..Len(entries) :
                    ToLocaleLowerCase(entries[i].name) = "authorization"}
    IN IF hits = {} THEN 0 ELSE CHOOSE i \in hits : \A j \in hits : i <= j

\* property read headers[name] on a plain object; NullStr when undefined
Prop(entries, name) ==
    LET hits == {i \in 1..Len(entries) : entries[i].name = name}
    IN IF hits = {} THEN NullStr
       ELSE Join(entries[CHOOSE i \in hits : \A j \in hits : i >= j].vals, <<",">>)

\* Headers.prototype.get: case-insensitive on the name
HeadersGet(entries, name) ==
    LET hits == {i \in 1..Len(entries) :
                    ToLocaleLowerCase(entries[i].name) = ToLocaleLowerCase(name)}
    IN IF hits = {} THEN NullStr
       ELSE Join(entries[CHOOSE i \in hits : \A j \in hits : i <= j].vals, <<",", " ">>)

\* the authorizationValue local of AuthorizationCacheKeyComputer
AuthorizationValue(headers) ==
    IF headers.rep = "array"
    THEN LET i == FindAuthorizationHeader(headers.entries)
         IN IF i = 0 THEN NullStr ELSE Join(headers.entries[i].vals, <<"|">>)
    ELSE IF headers.rep = "map"
    THEN HeadersGet(headers.entries, "Authorization")
    ELSE LET a == Prop(headers.entries, "Authorization")
         IN IF a # NullStr THEN a ELSE Prop(headers.entries, "authorization")

\* CacheKeyComputer._getCacheKeyComponents
BaseCacheKeyComponents(url) == <<  <<"g", "i", "t", "h", "u", "b">>, url >>

\* variant: the authorization value is looked for but not yielded
AuthorizationCacheKeyComponents_NotYielded(url, headers) ==
    IF headers.rep = "none"
    THEN [ok |-> FALSE, comps |-> BaseCacheKeyComponents(url)]
    ELSE IF ~Truthy(AuthorizationValue(headers))
    THEN [ok |-> FALSE, comps |-> BaseCacheKeyComponents(url)]
    ELSE [ok |-> TRUE, comps |-> BaseCacheKeyComponents(url)]

\* variant: a request without credential gets the base components
AuthorizationCacheKeyComponents_Fallback(url, headers) ==
    IF headers.rep = "none" \/ ~Truthy(AuthorizationValue(headers))
    THEN [ok |-> TRUE, comps |-> BaseCacheKeyComponents(url)]
    ELSE [ok |-> TRUE,
          comps |-> Append(BaseCacheKeyComponents(url), AuthorizationValue(headers))]

\* AuthorizationCacheKeyComputer._getCacheKeyComponents: the yielded
\* components, or the thrown error
AuthorizationCacheKeyComponents(url, headers) ==
    IF headers.rep = "none"
    THEN [ok |-> FALSE, comps |-> BaseCacheKeyComponents(url)]
    ELSE IF ~Truthy(AuthorizationValue(headers))
    THEN [ok |-> FALSE, comps |-> BaseCacheKeyComponents(url)]
    ELSE [ok |-> TRUE,
          comps |-> Append(BaseCacheKeyComponents(url), AuthorizationValue(headers))]

\* _getCacheKeyComponents as dispatched on the computer's class
GetCacheKeyComponents(computer, url, headers) ==
    IF computer = "auth"
    THEN AuthorizationCacheKeyComponents(url, headers)
    ELSE [ok |-> TRUE, comps |-> BaseCacheKeyComponents(url)]

RECURSIVE HashUpdate(_)
\* hash.update(c) for each component: the digest input is the concatenation
HashUpdate(comps) ==
    IF Len(comps) = 0 THEN <<>> ELSE Head(comps) \o HashUpdate(Tail(comps))

\* CacheKeyComputer.computeCacheKey: [ok, key]; ok = FALSE when it throws
ComputeCacheKey(computer, url, headers) ==
    LET c == GetCacheKeyComponents(computer, url, headers)
    IN IF c.ok THEN [ok |-> TRUE, key |-> HashUpdate(c.comps)]
       ELSE [ok |-> FALSE, key |-> <<>>]

(* --------------------------- client hierarchy -------------------------- *)

\* GitHubClient._headers: a plain object with User-Agent and Accept
BaseHeaders(extra) ==
    [rep |-> "object",
     entries |-> << [name |-> "Accept", vals |-> << <<"j">> >>] >> \o extra]

\* the app's signed assertion (GitHubAppClient._createAppAccessToken)
AppJwt == <<"w">>

\* GitHubOAuthClient constructor: new AuthorizationCacheKeyComputer()
GitHubOAuthClient(accessToken) ==
    [tier |-> "oauth", computer |-> "auth", scheme |-> <<"t", "o", "k", "e", "n", " ">>,
     accessToken |-> accessToken]

\* GitHubAppClient constructor: new CacheKeyComputer()
GitHubAppClient ==
    [tier |-> "app", computer |-> "base", scheme |-> <<"B", "e", "a", "r", "e", "r", " ">>,
     accessToken |-> AppJwt]

\* GitHubAppClient.createInstallationClient: hands its own key computer on
CreateInstallationClient(app, accessToken) ==
    [tier |-> "installation", computer |-> app.computer,
     scheme |-> <<"t", "o", "k", "e", "n", " ">>, accessToken |-> accessToken]

\* createRepositoryClient of the OAuth and of the installation client
CreateRepositoryClient(client) ==
    [tier |-> "repository", computer |-> client.computer,
     scheme |-> <<"t", "o", "k", "e", "n", " ">>, accessToken |-> client.accessToken]

\* _headers of the four client classes: Authorization: `<scheme><token>`
ClientHeaders(client) ==
    BaseHeaders(<< [name |-> "Authorization",
                    vals |-> << client.scheme \o client.accessToken >>] >>)

\* the clients that issue conditional fetches concurrently: the repository
\* clients the app hands out for its installations (the clients of an OAuth
\* session compute their keys in SpecKey)
Clients ==
    {CreateRepositoryClient(CreateInstallationClient(GitHubAppClient, t)) :
        t \in InstallationTokens}

\* request options of a direct _fetch call that carry no usable credential
BareHeaders == {NoHeaders, BaseHeaders(<<>>)}

(* ------------------------------- origin -------------------------------- *)

\* variant: no upper limit on the status
Ok_NoUpperLimit(status) == status >= 200 /\ status # 304

\* Response.ok
Ok(status) == status >= 200 /\ status <= 299

\* the validator and the representation of url at version ver
Etag(url, ver) == <<"e">> \o url \o <<ToString(ver)>>

Payload(url, ver) == [url |-> url, ver |-> ver]

\* what the origin may answer to a GET of url carrying If-None-Match inm
\* (NullStr: no precondition) while the resource is at version ver
OriginResponses(url, ver, inm) ==
    (IF inm = Etag(url, ver)
     THEN {[status |-> 304, etag |-> Etag(url, ver), payload |-> NoPayload]}
     ELSE {[status |-> 200, etag |-> Etag(url, ver), payload |-> Payload(url, ver)],
           [status |-> 200, etag |-> NullStr, payload |-> Payload(url, ver)]})
      \cup {[status |-> 404, etag |-> NullStr, payload |-> NoPayload]}
      \cup (IF inm = NullStr
            THEN {[status |-> 304, etag |-> NullStr, payload |-> NoPayload]}
            ELSE {})

(* -------------------------------- state -------------------------------- *)

VARIABLES
    store,      \* the CacheRecord collection: a set of documents
    originVer,  \* origin: current version of the resource at each url
    task,       \* the _fetch calls in flight, one slot per caller
    calls,      \* _fetch calls made so far
    kin,        \* key computation on its own: the two requests given
    kout,       \* key computation on its own: the two outcomes
    hook,       \* the webhook endpoint: one delivery and its handler
    client,     \* an installation client and the calls made on it
    web,        \* the console: one config update request and the origin file
    conf,       \* getConfig on its own: the stored document and the json
    sess,       \* the console: one request that restores its session
    merge,      \* mergeConfig on its own: one call and its outcome
    app,        \* the application: server, connections, whitelist, store
    cls         \* a classifier, the model directory and the model origin

vars ==
    <<store, originVer, task, calls, kin, kout, hook, client, web, conf, sess,
      merge, app, cls>>

NoFirst == [etag |-> NullStr, payload |-> NoPayload]

\* the variables of the other specifications, at rest
NoHook == [pc |-> "off"]
NoClient == [pc |-> "off"]
NoWeb == [pc |-> "off"]
NoConf == [pc |-> "off"]
NoSess == [pc |-> "off"]
NoMerge == [pc |-> "off"]
NoApp == [pc |-> "off"]
NoCls == [pc |-> "off"]

Idle ==
    [pc |-> "idle", computer |-> "base", url |-> <<>>, headers |-> NoHeaders,
     key |-> <<>>, rec |-> NoRec, inm |-> NullStr, resp |-> NoResp,
     result |-> Pending, nReads |-> 0, nReqs |-> 0, nWrites |-> 0,
     tainted |-> FALSE, after |-> NoFirst, raced |-> FALSE, reqVer |-> 0]

InFlight(t) == t.pc \in {"lookup", "request", "save"}

Init ==
    /\ store = {}
    /\ originVer = [u \in FetchUrls |-> 0]
    /\ task = [p \in Procs |-> Idle]
    /\ calls = 0
    /\ kin = <<>>
    /\ kout = <<>>
    /\ hook = NoHook
    /\ client = NoClient
    /\ web = NoWeb
    /\ conf = NoConf
    /\ sess = NoSess
    /\ merge = NoMerge
    /\ app = NoApp
    /\ cls = NoCls

(* ------------------------------- _fetch -------------------------------- *)

\* CacheRecord.findOne({ key }): no sort is given, so any matching document
\* may be the one returned; NoRec when none matches
FindOne(docs, key) ==
    IF \E r \in docs : r.key = key THEN {r \in docs : r.key = key} ELSE {NoRec}

\* the If-None-Match value put on the outbound request (NullStr: none)
IfNoneMatch(cacheRecord) ==
    IF cacheRecord # NoRec THEN cacheRecord.etag ELSE NullStr

\* { ...options.headers }: the own enumerable properties, which a plain
\* object has for its headers, an array for its indices, and a Headers
\* object not at all
Spread(headers) ==
    IF headers.rep = "object" THEN headers.entries
    ELSE IF headers.rep = "array"
    THEN [i \in 1..Len(headers.entries) |->
             [name |-> ToString(i - 1),
              vals |-> <<<<headers.entries[i].name>>>> \o headers.entries[i].vals]]
    ELSE <<>>

\* variant: the precondition replaces the caller's headers
SentHeaders_PreconditionOnly(headers, cacheRecord) ==
    IF cacheRecord # NoRec
    THEN [rep |-> "object",
          entries |-> << [name |-> "If-None-Match",
                          vals |-> <<IfNoneMatch(cacheRecord)>>] >>]
    ELSE headers

\* options.headers as handed to fetch: with a record, a new plain object of
\* the caller's headers and If-None-Match
SentHeaders(headers, cacheRecord) ==
    IF cacheRecord # NoRec
    THEN [rep |-> "object",
          entries |-> Spread(headers) \o << [name |-> "If-None-Match",
                                             vals |-> <<IfNoneMatch(cacheRecord)>>] >>]
    ELSE headers

\* variant: the record is not tested for null
CacheHit_NoAssert(cacheRecord) == Return(cacheRecord.payload)

\* variant: the record is read from the store again when the 304 comes in
CacheHit_Reread(cacheRecord) ==
    IF cacheRecord = NoRec \/ ~\E r \in store : r.id = cacheRecord.id
    THEN Raise
    ELSE Return((CHOOSE r \in store : r.id = cacheRecord.id).payload)

\* payload handed back on a 304
CacheHit(cacheRecord) ==
    IF cacheRecord = NoRec THEN Raise ELSE Return(cacheRecord.payload)

\* variant: the ETag test is missing, every 2xx response is saved
OnResponse_NoEtagTest(t, response) ==
    IF response.status = 304
    THEN [t EXCEPT !.pc = "done", !.resp = response, !.result = CacheHit(t.rec)]
    ELSE IF ~Ok(response.status)
    THEN [t EXCEPT !.pc = "done", !.resp = response, !.result = Raise]
    ELSE [t EXCEPT !.pc = "save", !.resp = response]

\* variant: a record found at lookup is served without regard to the answer
OnResponse_ServeCached(t, response) ==
    IF t.rec # NoRec \/ response.status = 304
    THEN [t EXCEPT !.pc = "done", !.resp = response, !.result = CacheHit(t.rec)]
    ELSE IF ~Ok(response.status)
    THEN [t EXCEPT !.pc = "done", !.resp = response, !.result = Raise]
    ELSE IF ~Truthy(response.etag)
    THEN [t EXCEPT !.pc = "done", !.resp = response,
                   !.result = Return(response.payload)]
    ELSE [t EXCEPT !.pc = "save", !.resp = response]

\* variant: on a 304 the record read at lookup is saved again
OnResponse_SaveOnHit(t, response) ==
    IF response.status = 304 /\ t.rec # NoRec
    THEN [t EXCEPT !.pc = "save",
                   !.resp = [response EXCEPT !.etag = t.rec.etag,
                                             !.payload = t.rec.payload]]
    ELSE IF response.status = 304
    THEN [t EXCEPT !.pc = "done", !.resp = response, !.result = CacheHit(t.rec)]
    ELSE IF ~Ok(response.status)
    THEN [t EXCEPT !.pc = "done", !.resp = response, !.result = Raise]
    ELSE IF ~Truthy(response.etag)
    THEN [t EXCEPT !.pc = "done", !.resp = response,
                   !.result = Return(response.payload)]
    ELSE [t EXCEPT !.pc = "save", !.resp = response]

\* variant: a failed request is issued again
OnResponse_Retry(t, response) ==
    IF response.status = 304
    THEN [t EXCEPT !.pc = "done", !.resp = response, !.result = CacheHit(t.rec)]
    ELSE IF ~Ok(response.status)
    THEN [t EXCEPT !.pc = "lookup", !.resp = response]
    ELSE IF ~Truthy(response.etag)
    THEN [t EXCEPT !.pc = "done", !.resp = response,
                   !.result = Return(response.payload)]
    ELSE [t EXCEPT !.pc = "save", !.resp = response]

\* the continuation of _fetch once the response is in: the task after the
\* status dispatch and the ETag test
OnResponse(t, response) ==
    IF response.status = 304
    THEN [t EXCEPT !.pc = "done", !.resp = response, !.result = CacheHit(t.rec)]
    ELSE IF ~Ok(response.status)
    THEN [t EXCEPT !.pc = "done", !.resp = response, !.result = Raise]
    ELSE IF ~Truthy(response.etag)
    THEN [t EXCEPT !.pc = "done", !.resp = response,
                   !.result = Return(response.payload)]
    ELSE [t EXCEPT !.pc = "save", !.resp = response]

\* variant: the update of a document sets its etag only
SaveRecord_EtagOnly(docs, cacheRecord, key, id, etag, payload) ==
    IF cacheRecord = NoRec
    THEN docs \cup {[id |-> id, key |-> key, etag |-> etag, payload |-> payload]}
    ELSE {IF r.id = cacheRecord.id
          THEN [r EXCEPT !.etag = etag]
          ELSE r : r \in docs}

\* cacheRecord.save(): insert of a new document, or update by _id of the
\* document read at lookup (no effect when that document is gone)
SaveRecord(docs, cacheRecord, key, id, etag, payload) ==
    IF cacheRecord = NoRec
    THEN docs \cup {[id |-> id, key |-> key, etag |-> etag, payload |-> payload]}
    ELSE {IF r.id = cacheRecord.id
          THEN [r EXCEPT !.etag = etag, !.payload = payload]
          ELSE r : r \in docs}

\* history bookkeeping: the fetches, running or over, whose run of
\* sequential fetches a store or origin event or a concurrent fetch breaks
Taint(tasks, hit) ==
    [q \in Procs |->
        IF tasks[q].pc # "idle" /\ q \in hit
        THEN [tasks[q] EXCEPT !.tainted = TRUE]
        ELSE tasks[q]]

\* history bookkeeping: the fetches in flight during which another fetch
\* for the same key has written its record
Raced(tasks, hit) ==
    [q \in Procs |->
        IF InFlight(tasks[q]) /\ q \in hit
        THEN [tasks[q] EXCEPT !.raced = TRUE]
        ELSE tasks[q]]

\* history bookkeeping: what is recorded about a fetch in flight (the origin
\* version at its request, writes by others) is dropped once it is over
Settle(t) ==
    IF t.pc = "done" THEN [t EXCEPT !.raced = FALSE, !.reqVer = 0] ELSE t

\* history: the first full response of the run of sequential fetches a
\* finished fetch belongs to (its own, when it is the one that stored it)
FirstOf(t) ==
    IF t.after # NoFirst THEN t.after
    ELSE IF t.nWrites = 1 /\ t.result.kind = "return"
    THEN [etag |-> t.resp.etag, payload |-> t.resp.payload]
    ELSE NoFirst

\* _fetch(url, options) up to the first await: key computation, then the
\* lookup is issued
Fetch(p, computer, url, headers) ==
    /\ task[p].pc \in {"idle", "done"}
    /\ calls < MaxCalls
    /\ calls' = calls + 1
    /\ LET k == ComputeCacheKey(computer, url, headers)
           SameKey == {q \in Procs : task[q].key = k.key}
           overlap == \E q \in SameKey \ {p} : InFlight(task[q])
           seen == {q \in SameKey : /\ task[q].pc = "done"
                                     /\ task[q].headers = headers
                                     /\ ~task[q].tainted
                                     /\ FirstOf(task[q]) # NoFirst}
           started == [Idle EXCEPT !.computer = computer, !.url = url,
                                   !.headers = headers]
       IN IF ~k.ok
          THEN task' = [task EXCEPT ![p] = [started EXCEPT !.pc = "done",
                                                           !.result = Raise]]
          ELSE task' = [(IF overlap THEN Taint(task, SameKey) ELSE task) EXCEPT ![p] =
                    [started EXCEPT !.pc = "lookup", !.key = k.key,
                        !.tainted = overlap,
                        !.after = IF overlap \/ seen = {} THEN NoFirst
                                  ELSE FirstOf(task[CHOOSE q \in seen : TRUE])]]
    /\ UNCHANGED <<store, originVer, kin, kout, hook, client, web, conf, sess, merge, app, cls>>

\* a read issued by one of the clients of the hierarchy
ClientFetch(p) ==
    \E c \in Clients, u \in FetchUrls : Fetch(p, c.computer, u, ClientHeaders(c))

\* _fetch called with options that hold no credential
BareFetch(p) ==
    \E u \in FetchUrls, h \in BareHeaders : Fetch(p, "auth", u, h)

\* findOne resolves; If-None-Match is attached and the request goes out
Lookup(p) ==
    /\ task[p].pc = "lookup"
    /\ \E r \in FindOne(store, task[p].key) :
          task' = [task EXCEPT ![p] = [@ EXCEPT !.pc = "request", !.rec = r,
                                                !.inm = Prop(SentHeaders(task[p].headers, r).entries,
                                                             "If-None-Match"),
                                                !.nReads = @ + 1,
                                                !.nReqs = @ + 1,
                                                !.reqVer = originVer[task[p].url]]]
    /\ UNCHANGED <<store, originVer, calls, kin, kout, hook, client, web, conf, sess, merge, app, cls>>

\* the origin answers; status dispatch, ETag test, body parse
Respond(p) ==
    /\ task[p].pc = "request"
    /\ \E response \in OriginResponses(task[p].url, originVer[task[p].url],
                                       task[p].inm) :
          task' = [task EXCEPT ![p] = Settle(OnResponse(task[p], response))]
    /\ UNCHANGED <<store, originVer, calls, kin, kout, hook, client, web, conf, sess, merge, app, cls>>

\* document ids no document and no fetch in flight holds
FreeIds ==
    (1..MaxCalls) \ ({r.id : r \in store}
                         \cup {task[q].rec.id : q \in {q \in Procs : InFlight(task[q])}})

\* the _id given to a new document
NewId == IF FreeIds = {} THEN 0 ELSE CHOOSE i \in FreeIds : \A j \in FreeIds : i <= j

\* cacheRecord.save() resolves and the payload is returned
Save(p) ==
    LET t == task[p]
        gone == t.rec # NoRec /\ ~\E r \in store : r.id = t.rec.id
        SameKey == {q \in Procs : task[q].key = t.key}
    IN /\ t.pc = "save"
       /\ store' = SaveRecord(store, t.rec, t.key, NewId, t.resp.etag,
                              t.resp.payload)
       /\ \E res \in (IF gone THEN {Raise, Return(t.resp.payload)}
                      ELSE {Return(t.resp.payload)}) :
             task' = [Raced(task, IF gone THEN {} ELSE SameKey \ {p})
                         EXCEPT ![p] = Settle([t EXCEPT !.pc = "done",
                                                        !.result = res,
                                                        !.nWrites = @ + 1])]
       /\ UNCHANGED <<originVer, calls, kin, kout, hook, client, web, conf, sess, merge, app, cls>>

\* the TTL index (expires: 60 * 60) removes a document
Evict ==
    \E r \in store :
        LET SameKey == {q \in Procs : task[q].key = r.key}
        IN /\ store' = store \ {r}
           /\ task' = Taint(task, SameKey)
           /\ UNCHANGED <<originVer, calls, kin, kout, hook, client, web, conf, sess, merge, app, cls>>

\* the resource behind a url changes at the origin
OriginChange ==
    \E u \in FetchUrls :
        LET SameUrl == {q \in Procs : task[q].url = u}
        IN /\ originVer[u] < MaxVer
           /\ originVer' = [originVer EXCEPT ![u] = @ + 1]
           /\ task' = Taint(task, SameUrl)
           /\ UNCHANGED <<store, calls, kin, kout, hook, client, web, conf, sess, merge, app, cls>>

Next ==
    \/ \E p \in Procs : ClientFetch(p)
    \/ \E p \in Procs : BareFetch(p)
    \/ \E p \in Procs : Lookup(p)
    \/ \E p \in Procs : Respond(p)
    \/ \E p \in Procs : Save(p)
    \/ Evict
    \/ OriginChange

Spec == Init /\ [][Next]_vars

(* ---------------------- key computation on its own --------------------- *)

\* authorization values given to the key computers
AuthValues == {<<"t", " ", "x">>, <<"t", " ", "y">>, <<" ", "x">>}

\* the spellings of the header name
AuthNames == {"Authorization", "authorization", "AUTHORIZATION"}

\* RequestInit.headers holding one authorization header: an array of
\* [name, value] entries, a Headers object, or a plain object
MkHeaders(rep, name, value) ==
    [rep |-> rep,
     entries |-> << [name |-> "Accept", vals |-> << <<"j">> >>],
                    [name |-> name, vals |-> <<value>>] >>]

KeyRequests ==
    {[url |-> u, auth |-> a, headers |-> MkHeaders(r, n, a)] :
        u \in Urls, a \in AuthValues, r \in {"array", "map", "object"}, n \in AuthNames}
      \cup {[url |-> u, auth |-> NullStr, headers |-> h] : u \in Urls, h \in BareHeaders}

InitKey ==
    /\ store = {}
    /\ originVer = [u \in FetchUrls |-> 0]
    /\ task = [p \in Procs |-> Idle]
    /\ calls = 0
    /\ kin \in {<<a, b>> : a \in KeyRequests, b \in KeyRequests}
    /\ kout = <<>>
    /\ hook = NoHook
    /\ client = NoClient
    /\ web = NoWeb
    /\ conf = NoConf
    /\ sess = NoSess
    /\ merge = NoMerge
    /\ app = NoApp
    /\ cls = NoCls

\* both key computers applied to both requests
ComputeKeys ==
    /\ kout = <<>>
    /\ kout' = [i \in 1..2 |->
                  [c \in {"base", "auth"} |->
                      ComputeCacheKey(c, kin[i].url, kin[i].headers)]]
    /\ UNCHANGED <<store, originVer, task, calls, kin, hook, client, web, conf, sess, merge, app, cls>>

NextKey == ComputeKeys

SpecKey == InitKey /\ [][NextKey]_vars

(* ------------------------------ getConfig ------------------------------ *)

NoRepositoryConfig ==
    [exists |-> FALSE, sha |-> "", json |-> "none"]

\* getConfig on the answer to the read: _fetch throws on a status that is
\* not ok, so the branch for a missing body is never taken with a 404
GetConfig(answer) ==
    IF ~Ok(answer.status)
    THEN [ok |-> FALSE, config |-> NoRepositoryConfig]
    ELSE [ok |-> TRUE,
          config |-> [exists |-> TRUE, sha |-> answer.sha, json |-> answer.content]]

(* --------------------------- webhook endpoint --------------------------- *)

LabelKeys == {"bug", "enhancement", "question"}

\* repositoryConfigDefaults
RepositoryConfigDefaults ==
    [version |-> 3, enabled |-> TRUE,
     labels |-> [k \in LabelKeys |-> [enabled |-> TRUE, text |-> k]]]

\* what getConfig can hand back as json: the defaults, filled in under the
\* settings of the repository's file
RepositoryConfigs ==
    UNION {{[RepositoryConfigDefaults EXCEPT
                 !.enabled = on,
                 !.labels[k] = [enabled |-> e, text |-> t]] :
               on \in BOOLEAN, e \in BOOLEAN, t \in {k, "custom"}} : k \in LabelKeys}

NoConfig == [version |-> 0, enabled |-> FALSE, labels |-> <<>>]

\* the permissions of an installation access token
Resources == {"issues", "single_file"}
Levels == {"none", "read", "write", "admin"}
PermissionMaps == UNION {[D -> Levels] : D \in SUBSET Resources}

\* this.permissions[permission]
Permission(permissions, permission) ==
    IF permission \in DOMAIN permissions THEN permissions[permission]
    ELSE "undefined"

\* Array.prototype.includes
Includes(array, value) == \E i \in 1..Len(array) : array[i] = value

\* variant: the write level is left out
CanRead_ReadOnly(permissions, permission) ==
    Includes(<<"read">>, Permission(permissions, permission))

\* GitHubInstallationClient.canRead
CanRead(permissions, permission) ==
    Includes(<<"read", "write">>, Permission(permissions, permission))

\* variant: read access is taken for write access
CanWrite_ReadSuffices(permissions, permission) ==
    Includes(<<"read", "write">>, Permission(permissions, permission))

\* GitHubInstallationClient.canWrite
CanWrite(permissions, permission) ==
    Includes(<<"write">>, Permission(permissions, permission))

\* classifier.predict: [label key, similarity]; [null, 0] without a prediction
Predictions ==
    {[key |-> k, similarity |-> x] : k \in LabelKeys, x \in {0, 1}}
      \cup {[key |-> "null", similarity |-> 0]}

NoPrediction == [key |-> "none", similarity |-> -1]

\* req.ip of a delivery: with "trust proxy" enabled it is what the sender's
\* X-Forwarded-For says, which need not be an address
Ips == {"hook1", "hook2", "other", "local", "unknown"}

\* meta.hooks, the ranges start() puts on the whitelist, and 127.0.0.0/8
HookRanges == {{"hook1", "hook2"}}
LocalRange == {"local"}

\* ipaddr.parse gives an address: it throws on a text that is none
IpParses(ip) == ip # "unknown"

\* variant: every sender passes
IpWhitelistContains_All(ipRanges, ip) == TRUE

\* IpWhitelist.contains
IpWhitelistContains(ipRanges, ip) == \E ipRange \in ipRanges : ip \in ipRange

IssueLabelLists == {<<>>, <<"old">>}
Events == {"issues.opened", "installation.created"}

\* outbound calls as logged
Call(name) == [call |-> name, labels |-> <<>>]
SetIssueLabelsCall(labels) == [call |-> "setIssueLabels", labels |-> labels]

HookIdle ==
    [pc |-> "idle", ip |-> "none", signed |-> FALSE, event |-> "none",
     issueLabels |-> <<>>, status |-> 0, minted |-> FALSE, permissions |-> <<>>,
     config |-> NoConfig, prediction |-> NoPrediction, log |-> <<>>,
     revoked |-> FALSE, thrown |-> FALSE, configStatus |-> 0,
     production |-> TRUE, phase |-> "new", ipRanges |-> {}, at |-> "none"]

InitHook ==
    /\ store = {}
    /\ originVer = [u \in FetchUrls |-> 0]
    /\ task = [p \in Procs |-> Idle]
    /\ calls = 0
    /\ kin = <<>>
    /\ kout = <<>>
    /\ hook \in {[HookIdle EXCEPT !.production = production] :
                   production \in BOOLEAN}
    /\ client = NoClient
    /\ web = NoWeb
    /\ conf = NoConf
    /\ sess = NoSess
    /\ merge = NoMerge
    /\ app = NoApp
    /\ cls = NoCls

\* an awaited call rejects: the handler is left, the middleware answers 500
Throw(h) == [h EXCEPT !.pc = "done", !.thrown = TRUE, !.status = 500]

\* the handler is over without an error
Handled(h) == [h EXCEPT !.pc = "done", !.status = 200]

\* handleIssueOpened up to its first await: the installation's access token
\* is asked for
HandleIssueOpened(h) ==
    [h EXCEPT !.pc = "token",
              !.log = Append(@, Call("createInstallationAccessToken"))]

\* the webhooks middleware: a delivery whose signature does not match the
\* HMAC of its body is answered 400; the handler registered for the event
\* is run
WebhooksMiddleware(h) ==
    IF ~h.signed
    THEN [h EXCEPT !.pc = "done", !.status = 400]
    ELSE IF h.event = "issues.opened"
    THEN HandleIssueOpened(h)
    ELSE Handled(h)

\* githubIpWhitelist: a sender off the whitelist is answered 403; when
\* contains throws, the request is answered 500
GithubIpWhitelist(h) ==
    IF ~IpParses(h.ip)
    THEN Throw(h)
    ELSE IF IpWhitelistContains(h.ipRanges, h.ip)
    THEN WebhooksMiddleware(h)
    ELSE [h EXCEPT !.pc = "done", !.status = 403]

\* start() of the webhook app: getMeta is asked for
WebhookStart ==
    /\ hook.phase = "new"
    /\ hook' = [hook EXCEPT !.phase = "starting"]
    /\ UNCHANGED <<store, originVer, task, calls, kin, kout, client, web, conf, sess, merge, app, cls>>

\* getMeta rejects and start() with it, or it resolves: addRanges(meta.hooks),
\* and addRange("127.0.0.0/8") outside production
WebhookStartDone ==
    /\ hook.phase = "starting"
    /\ \/ hook' = [hook EXCEPT !.phase = "failed"]
       \/ hook' = [hook EXCEPT
                     !.phase = "started",
                     !.ipRanges = @ \cup HookRanges
                                    \cup (IF hook.production THEN {}
                                          ELSE {LocalRange})]
    /\ UNCHANGED <<store, originVer, task, calls, kin, kout, client, web, conf, sess, merge, app, cls>>

\* stop() of the webhook app, called once start() is over: ipWhitelist.clear()
WebhookStop ==
    /\ hook.phase \in {"started", "failed"}
    /\ hook' = [hook EXCEPT !.phase = "stopped", !.ipRanges = {}]
    /\ UNCHANGED <<store, originVer, task, calls, kin, kout, client, web, conf, sess, merge, app, cls>>

\* a delivery comes in and passes through the middleware
Deliver ==
    /\ hook.pc = "idle"
    /\ \E ip \in Ips, signed \in BOOLEAN, event \in Events,
          issueLabels \in IssueLabelLists :
          hook' = GithubIpWhitelist([hook EXCEPT !.ip = ip, !.signed = signed,
                                                !.event = event,
                                                !.issueLabels = issueLabels,
                                                !.at = hook.phase])
    /\ UNCHANGED <<store, originVer, task, calls, kin, kout, client, web, conf, sess, merge, app, cls>>

\* handleIssueOpened once the installation client is there: the permission
\* tests, up to the config read or the prediction
OnInstallationClient(h, permissions) ==
    LET h1 == [h EXCEPT !.minted = TRUE, !.permissions = permissions]
    IN IF ~CanWrite(permissions, "issues")
       THEN Handled(h1)
       ELSE IF CanRead(permissions, "single_file")
       THEN [h1 EXCEPT !.pc = "config", !.log = Append(@, Call("getConfig"))]
       ELSE [h1 EXCEPT !.pc = "predict", !.config = RepositoryConfigDefaults]

\* createInstallationClient resolves or rejects
TokenDone ==
    /\ hook.pc = "token"
    /\ \/ hook' = Throw(hook)
       \/ \E permissions \in PermissionMaps :
             hook' = OnInstallationClient(hook, permissions)
    /\ UNCHANGED <<store, originVer, task, calls, kin, kout, client, web, conf, sess, merge, app, cls>>

\* the origin's status for the read of the config file: 404 when the
\* repository has none
ConfigStatuses == {200, 404, 500}

\* the origin answers the read of the config file and getConfig resolves or
\* rejects
ConfigDone ==
    /\ hook.pc = "config"
    /\ \E status \in ConfigStatuses :
          LET h == [hook EXCEPT !.configStatus = status]
              got == GetConfig([status |-> status, sha |-> "s1", content |-> "c1"])
          IN IF ~got.ok
             THEN hook' = Throw(h)
             ELSE \E json \in RepositoryConfigs :
                     hook' = [h EXCEPT !.pc = "predict", !.config = json]
    /\ UNCHANGED <<store, originVer, task, calls, kin, kout, client, web, conf, sess, merge, app, cls>>

\* the handler hands the token back
RevokeAccessToken(h) ==
    [h EXCEPT !.pc = "revoke", !.log = Append(@, Call("revokeAccessToken"))]

\* variant: the label is written whether enabled or not
OnPrediction_IgnoreEnabled(h, prediction) ==
    LET h1 == [h EXCEPT !.prediction = prediction]
    IN IF prediction.similarity > 0
       THEN [h1 EXCEPT !.pc = "labels",
                !.log = Append(@, SetIssueLabelsCall(
                    h.issueLabels \o <<h.config.labels[prediction.key].text>>))]
       ELSE RevokeAccessToken(h1)

\* handleIssueOpened once the prediction is there: the label decision, up to
\* the labels write or the revocation
OnPrediction(h, prediction) ==
    LET h1 == [h EXCEPT !.prediction = prediction]
    IN IF prediction.similarity > 0
       THEN IF prediction.key \notin DOMAIN h.config.labels
            THEN Throw(h1)
            ELSE IF h.config.labels[prediction.key].enabled
            THEN [h1 EXCEPT !.pc = "labels",
                     !.log = Append(@, SetIssueLabelsCall(
                         h.issueLabels \o <<h.config.labels[prediction.key].text>>))]
            ELSE RevokeAccessToken(h1)
       ELSE RevokeAccessToken(h1)

\* classifier.predict resolves or rejects
PredictDone ==
    /\ hook.pc = "predict"
    /\ \/ hook' = Throw(hook)
       \/ \E prediction \in Predictions : hook' = OnPrediction(hook, prediction)
    /\ UNCHANGED <<store, originVer, task, calls, kin, kout, client, web, conf, sess, merge, app, cls>>

\* setIssueLabels resolves or rejects
LabelsDone ==
    /\ hook.pc = "labels"
    /\ \/ hook' = Throw(hook)
       \/ hook' = RevokeAccessToken(hook)
    /\ UNCHANGED <<store, originVer, task, calls, kin, kout, client, web, conf, sess, merge, app, cls>>

\* revokeAccessToken resolves or rejects
RevokeDone ==
    /\ hook.pc = "revoke"
    /\ \/ hook' = Throw(hook)
       \/ hook' = Handled([hook EXCEPT !.revoked = TRUE])
    /\ UNCHANGED <<store, originVer, task, calls, kin, kout, client, web, conf, sess, merge, app, cls>>

NextHook ==
    \/ WebhookStart
    \/ WebhookStartDone
    \/ WebhookStop
    \/ Deliver
    \/ TokenDone
    \/ ConfigDone
    \/ PredictDone
    \/ LabelsDone
    \/ RevokeDone

SpecHook == InitHook /\ [][NextHook]_vars

(* -------------------------- installation client ------------------------ *)

\* what a call on the client comes to: a value or an error
Value(read, write) == [kind |-> "value", read |-> read, write |-> write]
Error == [kind |-> "error", read |-> FALSE, write |-> FALSE]

NoCall == [method |-> "none", arg |-> "none", outcome |-> Value(FALSE, FALSE)]

\* the resources asked about: those of the permission maps and one no map has
AskedResources == Resources \cup {"metadata"}

\* the origin's status for a request made with the client's token: a
\* revoked token is refused
OriginStatuses(revoked, success) == IF revoked THEN {401} ELSE {success, 500}

\* _assertSuccess
AssertSuccess(status) ==
    IF ~Ok(status) /\ status # 304 THEN Error ELSE Value(FALSE, FALSE)

InitClient ==
    /\ store = {}
    /\ originVer = [u \in FetchUrls |-> 0]
    /\ task = [p \in Procs |-> Idle]
    /\ calls = 0
    /\ kin = <<>>
    /\ kout = <<>>
    /\ hook = NoHook
    /\ client \in {[pc |-> "live", permissions |-> permissions,
                    revoked |-> FALSE, last |-> NoCall] :
                      permissions \in PermissionMaps}
    /\ web = NoWeb
    /\ conf = NoConf
    /\ sess = NoSess
    /\ merge = NoMerge
    /\ app = NoApp
    /\ cls = NoCls

\* canRead(permission) and canWrite(permission), asked one after the other
ClientCan ==
    /\ client.pc = "live"
    /\ \E permission \in AskedResources :
          client' = [client EXCEPT !.last =
              [method |-> "can", arg |-> permission,
               outcome |-> Value(CanRead(client.permissions, permission),
                                 CanWrite(client.permissions, permission))]]
    /\ UNCHANGED <<store, originVer, task, calls, kin, kout, hook, web, conf, sess, merge, app, cls>>

\* createRepositoryClient: a repository client that shares the token
ClientCreateRepositoryClient ==
    /\ client.pc = "live"
    /\ client' = [client EXCEPT !.last =
          [method |-> "createRepositoryClient", arg |-> "none",
           outcome |-> Value(FALSE, FALSE)]]
    /\ UNCHANGED <<store, originVer, task, calls, kin, kout, hook, web, conf, sess, merge, app, cls>>

\* revokeAccessToken: DELETE /installation/token, then _assertSuccess
ClientRevokeAccessToken ==
    /\ client.pc = "live"
    /\ \E status \in OriginStatuses(client.revoked, 204) :
          client' = [client EXCEPT
              !.revoked = @ \/ Ok(status),
              !.last = [method |-> "revokeAccessToken", arg |-> "none",
                        outcome |-> AssertSuccess(status)]]
    /\ UNCHANGED <<store, originVer, task, calls, kin, kout, hook, web, conf, sess, merge, app, cls>>

\* a request of the repository client made with the shared token
ClientRequest ==
    /\ client.pc = "live"
    /\ \E method \in {"getConfig", "setIssueLabels"},
          status \in OriginStatuses(client.revoked, 200) :
          client' = [client EXCEPT !.last =
              [method |-> method, arg |-> "none",
               outcome |-> AssertSuccess(status)]]
    /\ UNCHANGED <<store, originVer, task, calls, kin, kout, hook, web, conf, sess, merge, app, cls>>

NextClient ==
    \/ ClientCan
    \/ ClientCreateRepositoryClient
    \/ ClientRevokeAccessToken
    \/ ClientRequest

SpecClient == InitClient /\ [][NextClient]_vars

(* ------------------------ console: config update ----------------------- *)

\* blob shas of the config file, and what the file says (the parsed json)
Shas == {"s1", "s2", "s3"}
Contents == {"c1", "c2"}

\* what the form submits: a sha ("" when the field is empty) and a
\* configuration, which may fail the schema
BodyShas == Shas \cup {""}
Updates == Contents \cup {"invalid"}

\* the sha is a digest of the file's text, so it fixes what the file says;
\* two texts may say the same
ContentOf(sha) == IF sha = "s2" THEN "c2" ELSE "c1"

\* the config file at the origin
Origins ==
    {[exists |-> TRUE, sha |-> sha, content |-> ContentOf(sha)] : sha \in Shas}
      \cup {[exists |-> FALSE, sha |-> "", content |-> "none"]}

WebIdle ==
    [pc |-> "idle", body |-> [sha |-> "", update |-> "none"],
     origin |-> [exists |-> FALSE, sha |-> "", content |-> "none"],
     answer |-> [status |-> 0, sha |-> "", content |-> "none"],
     config |-> NoRepositoryConfig, sha |-> "", seen |-> "", handled |-> FALSE,
     status |-> 0, log |-> <<>>, wrote |-> FALSE, minted |-> FALSE,
     permissions |-> <<>>]

InitWeb ==
    /\ store = {}
    /\ originVer = [u \in FetchUrls |-> 0]
    /\ task = [p \in Procs |-> Idle]
    /\ calls = 0
    /\ kin = <<>>
    /\ kout = <<>>
    /\ hook = NoHook
    /\ client = NoClient
    /\ web \in {[WebIdle EXCEPT !.origin = o] : o \in Origins}
    /\ conf = NoConf
    /\ sess = NoSess
    /\ merge = NoMerge
    /\ app = NoApp
    /\ cls = NoCls

\* an awaited call rejects, or a handler throws: the request is answered 500
WebThrow(w) == [w EXCEPT !.pc = "done", !.status = 500]

\* someone else commits the config file, or removes it
OriginCommit ==
    /\ web.pc # "done"
    /\ \E o \in Origins :
          /\ o.sha # web.origin.sha
          /\ web' = [web EXCEPT !.origin = o]
    /\ UNCHANGED <<store, originVer, task, calls, kin, kout, hook, client, conf, sess, merge, app, cls>>

\* POST /:owner/:repo comes in; prepareRepo asks for the repository
WebRequest ==
    /\ web.pc = "idle"
    /\ \E sha \in BodyShas, update \in Updates :
          web' = [web EXCEPT !.pc = "repository",
                             !.body = [sha |-> sha, update |-> update],
                             !.sha = sha,
                             !.log = Append(@, "getRepository")]
    /\ UNCHANGED <<store, originVer, task, calls, kin, kout, hook, client, conf, sess, merge, app, cls>>

\* getRepository resolves or rejects; prepareRepo asks for the config
RepositoryDone ==
    /\ web.pc = "repository"
    /\ \/ web' = WebThrow(web)
       \/ web' = [web EXCEPT !.pc = "config", !.log = Append(@, "getConfig")]
    /\ UNCHANGED <<store, originVer, task, calls, kin, kout, hook, client, conf, sess, merge, app, cls>>

\* the origin answers the config read with what it holds at that moment
OriginAnswer ==
    /\ web.pc = "config"
    /\ web' = [web EXCEPT !.pc = "answer",
                          !.answer = IF web.origin.exists
                                     THEN [status |-> 200, sha |-> web.origin.sha,
                                           content |-> web.origin.content]
                                     ELSE [status |-> 404, sha |-> "",
                                           content |-> "none"]]
    /\ UNCHANGED <<store, originVer, task, calls, kin, kout, hook, client, conf, sess, merge, app, cls>>

\* variant: an empty sha field is let through
ShaConflict_EmptyPasses(config, sha) ==
    config.exists /\ sha # "" /\ sha # config.sha

\* the lost update check of handleUpdateRepo
ShaConflict(config, sha) == config.exists /\ sha # config.sha

\* variant: the submitted configuration is not validated
HandleUpdateRepo_NoValidation(w) ==
    IF ShaConflict(w.config, w.sha)
    THEN [w EXCEPT !.pc = "done", !.status = 409]
    ELSE [w EXCEPT !.pc = "token",
                   !.log = Append(@, "createInstallationAccessToken")]

\* handleUpdateRepo up to its first await
HandleUpdateRepo(w) ==
    IF ShaConflict(w.config, w.sha)
    THEN [w EXCEPT !.pc = "done", !.status = 409]
    ELSE IF w.body.update = "invalid"
    THEN [w EXCEPT !.pc = "done", !.status = 400]
    ELSE [w EXCEPT !.pc = "token",
                   !.log = Append(@, "createInstallationAccessToken")]

\* prepareRepo gets the config and hands over to handleUpdateRepo
PrepareDone ==
    /\ web.pc = "answer"
    /\ LET got == GetConfig(web.answer)
       IN web' = IF ~got.ok
                 THEN WebThrow(web)
                 ELSE HandleUpdateRepo([web EXCEPT !.config = got.config,
                                                   !.seen = web.origin.sha,
                                                   !.handled = TRUE])
    /\ UNCHANGED <<store, originVer, task, calls, kin, kout, hook, client, conf, sess, merge, app, cls>>

\* mergeConfig up to its await: nothing is sent when a sha is given and the
\* submitted configuration is the one read
MergeConfig(w) ==
    IF w.sha # "" /\ w.body.update = w.config.json
    THEN [w EXCEPT !.pc = "done", !.status = 302]
    ELSE [w EXCEPT !.pc = "merge", !.log = Append(@, "mergeConfig")]

\* handleUpdateRepo once the installation client is there
OnWebInstallationClient(w, permissions) ==
    LET w1 == [w EXCEPT !.minted = TRUE, !.permissions = permissions]
    IN IF ~CanWrite(permissions, "single_file")
       THEN [w1 EXCEPT !.pc = "done", !.status = 403]
       ELSE IF ~w.config.exists
       THEN [w1 EXCEPT !.pc = "create", !.log = Append(@, "createConfig")]
       ELSE MergeConfig(w1)

\* createInstallationClient resolves or rejects
WebTokenDone ==
    /\ web.pc = "token"
    /\ \/ web' = WebThrow(web)
       \/ \E permissions \in PermissionMaps :
             web' = OnWebInstallationClient(web, permissions)
    /\ UNCHANGED <<store, originVer, task, calls, kin, kout, hook, client, conf, sess, merge, app, cls>>

\* the origin takes a PUT of the file when the sha sent is the sha of the
\* file it holds (none sent, none held, for a creation)
OriginAccepts(origin, sha) ==
    IF origin.exists THEN sha = origin.sha ELSE sha = ""

\* the origin's status for the PUT: 409 when the sha sent is not the sha of
\* the file it holds
PutStatuses(origin, sha) ==
    IF OriginAccepts(origin, sha) THEN {200, 500} ELSE {409}

\* the PUT of createConfig or mergeConfig is answered: _assertSuccess throws
\* on a status that is not ok, and the request is then answered 500
PutDone ==
    /\ web.pc \in {"create", "merge"}
    /\ \E status \in PutStatuses(web.origin,
                                  IF web.pc = "create" THEN "" ELSE web.sha) :
          IF AssertSuccess(status) = Error
          THEN web' = WebThrow(web)
          ELSE \E sha \in Shas \ {web.origin.sha} :
                LET content == IF web.pc = "create" THEN "c1" ELSE web.body.update
                    w == [web EXCEPT
                            !.origin = [exists |-> TRUE, sha |-> sha,
                                        content |-> content],
                            !.config = [exists |-> TRUE, sha |-> sha,
                                        json |-> content],
                            !.sha = sha,
                            !.wrote = TRUE]
                IN /\ ContentOf(sha) = content
                   /\ web' = IF web.pc = "create"
                             THEN MergeConfig(w)
                             ELSE [w EXCEPT !.pc = "done", !.status = 302]
    /\ UNCHANGED <<store, originVer, task, calls, kin, kout, hook, client, conf, sess, merge, app, cls>>

NextWeb ==
    \/ OriginCommit
    \/ WebRequest
    \/ RepositoryDone
    \/ OriginAnswer
    \/ PrepareDone
    \/ WebTokenDone
    \/ PutDone

SpecWeb == InitWeb /\ [][NextWeb]_vars

(* ------------------------- getConfig: the json ------------------------- *)

\* values of a parsed YAML document
Null == [kind |-> "null"]
Bool(b) == [kind |-> "boolean", b |-> b]
Num(n) == [kind |-> "number", n |-> n]
Str(s) == [kind |-> "string", s |-> s]

\* a key that is not there
Undefined == [kind |-> "undefined"]

\* an object: its own keys are the domain of fields
Obj(fields) == [kind |-> "object", fields |-> fields]

\* String.prototype.length of the texts in use; "long" stands for a text of
\* 51 characters
Length(s) ==
    CASE s = "" -> 0
      [] s = "bug" -> 3
      [] s = "custom" -> 6
      [] s = "question" -> 8
      [] s = "enhancement" -> 11
      [] s = "long" -> 51

\* repositoryConfigDefaults as a document
DefaultsDoc ==
    Obj([k \in {"version", "enabled", "labels"} |->
          CASE k = "version" -> Num(RepositoryConfigDefaults.version)
            [] k = "enabled" -> Bool(RepositoryConfigDefaults.enabled)
            [] k = "labels" ->
                 Obj([l \in LabelKeys |->
                       Obj([f \in {"enabled", "text"} |->
                             IF f = "enabled"
                             THEN Bool(RepositoryConfigDefaults.labels[l].enabled)
                             ELSE Str(RepositoryConfigDefaults.labels[l].text)])])])

\* the schema of one label: { enabled: Joi.boolean(), text: Joi.string().max(50) }
ValidLabel(v) ==
    /\ v.kind = "object"
    /\ DOMAIN v.fields \subseteq {"enabled", "text"}
    /\ "enabled" \in DOMAIN v.fields => v.fields["enabled"].kind = "boolean"
    /\ "text" \in DOMAIN v.fields =>
          /\ v.fields["text"].kind = "string"
          /\ Length(v.fields["text"].s) >= 1
          /\ Length(v.fields["text"].s) <= 50

\* repositoryConfigSchema.validate(json).error is not set
Validate(json) ==
    /\ json.kind = "object"
    /\ DOMAIN json.fields \subseteq {"version", "enabled", "labels"}
    /\ "version" \in DOMAIN json.fields => json.fields["version"].kind = "number"
    /\ "enabled" \in DOMAIN json.fields => json.fields["enabled"].kind = "boolean"
    /\ "labels" \in DOMAIN json.fields =>
          /\ json.fields["labels"].kind = "object"
          /\ DOMAIN json.fields["labels"].fields \subseteq LabelKeys
          /\ \A l \in DOMAIN json.fields["labels"].fields :
                ValidLabel(json.fields["labels"].fields[l])

\* variant: _.defaults, which fills in the keys of the top level only
DefaultsDeep_Shallow(object, source) ==
    IF object.kind = "object" /\ source.kind = "object"
    THEN Obj([k \in DOMAIN object.fields \cup DOMAIN source.fields |->
                IF k \notin DOMAIN object.fields THEN source.fields[k]
                ELSE object.fields[k]])
    ELSE object

RECURSIVE DefaultsDeep(_, _)
\* _.defaultsDeep(object, source): a key the object lacks is taken from the
\* source, two objects under one key are filled in in turn, and any other
\* value of the object stays
DefaultsDeep(object, source) ==
    IF object.kind = "object" /\ source.kind = "object"
    THEN Obj([k \in DOMAIN object.fields \cup DOMAIN source.fields |->
                IF k \notin DOMAIN object.fields THEN source.fields[k]
                ELSE IF k \notin DOMAIN source.fields THEN object.fields[k]
                ELSE DefaultsDeep(object.fields[k], source.fields[k])])
    ELSE object

\* getConfig from YAML.parse on: the json returned for the parsed document
GetConfigJson(parsed) ==
    LET json == IF ~Validate(parsed) THEN DefaultsDoc ELSE parsed
    IN DefaultsDeep(json, DefaultsDoc)

\* what is found under each key of a stored label
StoredLabelValues(f) ==
    CASE f = "enabled" -> {Bool(FALSE), Str("custom")}
      [] f = "text" -> {Str("custom"), Str("long")}

\* the object that holds, of the two keys, those given a value
Label(enabled, text) ==
    LET given == [f \in {"enabled", "text"} |->
                    IF f = "enabled" THEN enabled ELSE text]
    IN Obj([f \in {f \in DOMAIN given : given[f].kind # "undefined"} |-> given[f]])

\* stored labels
StoredLabels ==
    {Label(enabled, text) :
        enabled \in StoredLabelValues("enabled") \cup {Undefined},
        text \in StoredLabelValues("text") \cup {Undefined}}
      \cup {Null}

\* the keys found under labels in a stored document
StoredLabelKeys == LabelKeys \cup {"other"}

\* what is stored under labels: at most MaxLabels keys
MaxLabels == 2

StoredLabelMaps ==
    {Obj(f) : f \in UNION {[D -> StoredLabels] :
                 D \in {D \in SUBSET StoredLabelKeys : Cardinality(D) <= MaxLabels}}}
      \cup {Null}

\* what is found under each key of the top level of a stored document
StoredValues(k) ==
    CASE k = "version" -> {Num(2), Str("custom")}
      [] k = "enabled" -> {Bool(FALSE), Num(2)}
      [] k = "labels" -> StoredLabelMaps
      [] k = "threshold" -> {Num(2)}

\* the object that holds, of the four keys, those given a value
TopLevel(version, enabled, labels, threshold) ==
    LET given == [k \in {"version", "enabled", "labels", "threshold"} |->
                    CASE k = "version" -> version
                      [] k = "enabled" -> enabled
                      [] k = "labels" -> labels
                      [] k = "threshold" -> threshold]
    IN Obj([k \in {k \in DOMAIN given : given[k].kind # "undefined"} |-> given[k]])

\* the documents YAML.parse hands to getConfig
StoredDocuments ==
    {TopLevel(version, enabled, labels, threshold) :
        version \in StoredValues("version") \cup {Undefined},
        enabled \in StoredValues("enabled") \cup {Undefined},
        labels \in StoredValues("labels") \cup {Undefined},
        threshold \in StoredValues("threshold") \cup {Undefined}}
      \cup {Null, Str("custom")}

ConfIdle == [pc |-> "read", parsed |-> Null, json |-> Null]

InitConfig ==
    /\ store = {}
    /\ originVer = [u \in FetchUrls |-> 0]
    /\ task = [p \in Procs |-> Idle]
    /\ calls = 0
    /\ kin = <<>>
    /\ kout = <<>>
    /\ hook = NoHook
    /\ client = NoClient
    /\ web = NoWeb
    /\ conf \in {[ConfIdle EXCEPT !.parsed = d] : d \in StoredDocuments}
    /\ sess = NoSess
    /\ merge = NoMerge
    /\ app = NoApp
    /\ cls = NoCls

\* getConfig on the body of an existing file, once the YAML is parsed
ReadConfig ==
    /\ conf.pc = "read"
    /\ conf' = [conf EXCEPT !.pc = "done", !.json = GetConfigJson(conf.parsed)]
    /\ UNCHANGED <<store, originVer, task, calls, kin, kout, hook, client, web, sess, merge, app, cls>>

NextConfig == ReadConfig

SpecConfig == InitConfig /\ [][NextConfig]_vars

(* ------------------------------ mergeConfig --------------------------- *)

\* isObject of the diff: a value with keys of its own
IsObject(v) == v.kind = "object"

RECURSIVE Added(_, _)
\* addedDiff(l, r) is not empty: a key of r, at any depth, that l lacks
Added(l, r) ==
    /\ IsObject(l)
    /\ IsObject(r)
    /\ \E k \in DOMAIN r.fields :
          \/ k \notin DOMAIN l.fields
          \/ k \in DOMAIN l.fields /\ Added(l.fields[k], r.fields[k])

\* deletedDiff(l, r) is not empty: a key of l, at any depth, that r lacks
Deleted(l, r) == Added(r, l)

RECURSIVE Updated(_, _)
\* updatedDiff(l, r) is not empty: a key of both, at any depth, whose value
\* is not the same
Updated(l, r) ==
    IF l = r THEN FALSE
    ELSE IF ~IsObject(l) \/ ~IsObject(r) THEN TRUE
    ELSE \E k \in DOMAIN l.fields \cap DOMAIN r.fields :
            Updated(l.fields[k], r.fields[k])

\* [added, deleted, updated].some((o) => !!Object.keys(o).length)
SomeDiff(l, r) == Added(l, r) \/ Deleted(l, r) \/ Updated(l, r)

\* the configurations getConfig hands back
CurrentConfigs == {GetConfigJson(d) : d \in StoredDocuments}

\* what is submitted as the updated configuration
UpdatedLabelMaps ==
    {Obj([l \in {"bug"} |-> v]) :
        v \in {Label(Bool(FALSE), Undefined), Label(Undefined, Str("custom")),
               Label(Undefined, Str("long"))}}

UpdatedConfigs ==
    {TopLevel(Undefined, enabled, labels, Undefined) :
        enabled \in {Undefined, Bool(FALSE), Bool(TRUE), Str("custom")},
        labels \in UpdatedLabelMaps \cup {Undefined}}

MergeIdle ==
    [pc |-> "call", repositoryConfig |-> Null, repositoryConfigYaml |-> "y1",
     sha |-> "", updatedRepositoryConfig |-> Null, log |-> <<>>,
     outcome |-> "none", json |-> Null, yaml |-> "", newSha |-> ""]

InitMerge ==
    /\ store = {}
    /\ originVer = [u \in FetchUrls |-> 0]
    /\ task = [p \in Procs |-> Idle]
    /\ calls = 0
    /\ kin = <<>>
    /\ kout = <<>>
    /\ hook = NoHook
    /\ client = NoClient
    /\ web = NoWeb
    /\ conf = NoConf
    /\ sess = NoSess
    /\ merge \in {[MergeIdle EXCEPT !.repositoryConfig = c, !.sha = sha,
                                    !.updatedRepositoryConfig = u] :
                     c \in CurrentConfigs, sha \in {"", "s1"},
                     u \in UpdatedConfigs}
    /\ app = NoApp
    /\ cls = NoCls

\* mergeConfig raises
MergeRaise(m) == [m EXCEPT !.pc = "done", !.outcome = "raise"]

\* variant: the file is written whether changed or not
MergeConfigJson_AlwaysPut(m) ==
    IF ~Validate(m.updatedRepositoryConfig)
    THEN MergeRaise(m)
    ELSE [m EXCEPT !.pc = "put", !.log = Append(@, "PUT")]

\* mergeConfig up to its await
MergeConfigJson(m) ==
    IF ~Validate(m.updatedRepositoryConfig)
    THEN MergeRaise(m)
    ELSE LET updated == DefaultsDeep(m.updatedRepositoryConfig, DefaultsDoc)
         IN IF m.sha # "" /\ ~SomeDiff(m.repositoryConfig, updated)
            THEN [m EXCEPT !.pc = "done", !.outcome = "return",
                           !.json = m.repositoryConfig,
                           !.yaml = m.repositoryConfigYaml,
                           !.newSha = m.sha]
            ELSE [m EXCEPT !.pc = "put", !.log = Append(@, "PUT")]

MergeCall ==
    /\ merge.pc = "call"
    /\ merge' = MergeConfigJson(merge)
    /\ UNCHANGED <<store, originVer, task, calls, kin, kout, hook, client, web, conf, sess, app, cls>>

\* the PUT is answered: _assertSuccess, then the updated configuration, the
\* updated yaml and the sha of the new blob are returned
MergePutDone ==
    /\ merge.pc = "put"
    /\ \E status \in {200, 409, 500} :
          merge' = IF AssertSuccess(status) = Error
                   THEN MergeRaise(merge)
                   ELSE [merge EXCEPT
                           !.pc = "done", !.outcome = "return",
                           !.json = DefaultsDeep(merge.updatedRepositoryConfig,
                                                 DefaultsDoc),
                           !.yaml = "y2",
                           !.newSha = "s2"]
    /\ UNCHANGED <<store, originVer, task, calls, kin, kout, hook, client, web, conf, sess, app, cls>>

NextMerge ==
    \/ MergeCall
    \/ MergePutDone

SpecMerge == InitMerge /\ [][NextMerge]_vars

(* --------------------- console: session restoration ------------------- *)

\* ids of User documents, and GitHub user ids
UserIds == {"u1", "u2"}
GithubIds == {"g1", "g2"}

\* the User collection
UserCollections ==
    UNION {[D -> [githubId : GithubIds, accessToken : OAuthTokens]] :
              D \in SUBSET UserIds}

NoUser == [githubId |-> "none", accessToken |-> <<>>]

\* the origin's answers to POST /applications/<client id>/token: the token's
\* user, or a status that is not ok for a token that is expired or revoked
CheckTokenAnswers ==
    {[status |-> 200, id |-> g] : g \in GithubIds}
      \cup {[status |-> status, id |-> "none"] : status \in {404, 401}}

NoAnswer == [status |-> 0, id |-> "none"]

\* GitHubOAuthClient.checkToken: null when the response is not ok
CheckToken(response) ==
    IF ~Ok(response.status) THEN [null |-> TRUE, id |-> "none"]
    ELSE [null |-> FALSE, id |-> response.id]

SessIdle ==
    [pc |-> "idle", users |-> <<>>, id |-> "none", user |-> NoUser,
     response |-> NoAnswer, githubOAuthClient |-> FALSE, authenticated |-> FALSE,
     log |-> <<>>, status |-> 0]

InitSession ==
    /\ store = {}
    /\ originVer = [u \in FetchUrls |-> 0]
    /\ task = [p \in Procs |-> Idle]
    /\ calls = 0
    /\ kin = <<>>
    /\ kout = <<>>
    /\ hook = NoHook
    /\ client = NoClient
    /\ web = NoWeb
    /\ conf = NoConf
    /\ sess \in {[SessIdle EXCEPT !.users = users] : users \in UserCollections}
    /\ merge = NoMerge
    /\ app = NoApp
    /\ cls = NoCls

\* an awaited call rejects: the request is answered 500
SessThrow(s) == [s EXCEPT !.pc = "done", !.status = 500]

\* deserializeUser is over (false: no user is set on the request); the
\* middleware goes on to prepareApp, which asks for the app
PrepareApp(s) == [s EXCEPT !.pc = "getApp", !.log = Append(@, "getApp")]

\* a request with a session cookie comes in; deserializeUser looks the user up
SessionRequest ==
    /\ sess.pc = "idle"
    /\ \E id \in UserIds :
          sess' = [sess EXCEPT !.pc = "findById", !.id = id]
    /\ UNCHANGED <<store, originVer, task, calls, kin, kout, hook, client, web, conf, merge, app, cls>>

\* User.findById resolves or rejects; with a user, the access token is checked
FindByIdDone ==
    /\ sess.pc = "findById"
    /\ \/ sess' = SessThrow(sess)
       \/ sess' = IF sess.id \notin DOMAIN sess.users
                  THEN PrepareApp(sess)
                  ELSE [sess EXCEPT !.pc = "checkToken",
                                    !.user = sess.users[sess.id],
                                    !.log = Append(@, "checkToken")]
    /\ UNCHANGED <<store, originVer, task, calls, kin, kout, hook, client, web, conf, merge, app, cls>>

\* variant: the token's user is not compared with the stored one
OnCheckToken_NoIdTest(s, response) ==
    LET checkTokenResponse == CheckToken(response)
        s1 == [s EXCEPT !.response = response]
    IN IF checkTokenResponse.null
       THEN PrepareApp(s1)
       ELSE PrepareApp([s1 EXCEPT !.githubOAuthClient = TRUE,
                                  !.authenticated = TRUE])

\* deserializeUser once checkToken is back
OnCheckToken(s, response) ==
    LET checkTokenResponse == CheckToken(response)
        s1 == [s EXCEPT !.response = response]
    IN IF checkTokenResponse.null
       THEN PrepareApp(s1)
       ELSE IF s.user.githubId # checkTokenResponse.id
       THEN PrepareApp(s1)
       ELSE PrepareApp([s1 EXCEPT !.githubOAuthClient = TRUE,
                                  !.authenticated = TRUE])

\* checkToken resolves or rejects
CheckTokenDone ==
    /\ sess.pc = "checkToken"
    /\ \/ sess' = SessThrow(sess)
       \/ \E response \in CheckTokenAnswers : sess' = OnCheckToken(sess, response)
    /\ UNCHANGED <<store, originVer, task, calls, kin, kout, hook, client, web, conf, merge, app, cls>>

\* ensureAuthenticated, then the route: a request that is not authenticated
\* is sent to /login
EnsureAuthenticated(s) ==
    [s EXCEPT !.pc = "done", !.status = IF s.authenticated THEN 200 ELSE 302]

\* prepareInstallations: the installations are listed with the user's token
\* when the request is authenticated
PrepareInstallations(s) ==
    IF s.authenticated
    THEN IF ~s.githubOAuthClient
         THEN SessThrow(s)
         ELSE [s EXCEPT !.pc = "listInstallations",
                        !.log = Append(@, "listInstallations")]
    ELSE EnsureAuthenticated(s)

\* getApp resolves or rejects; prepareUser, then prepareInstallations
GetAppDone ==
    /\ sess.pc = "getApp"
    /\ \/ sess' = SessThrow(sess)
       \/ sess' = PrepareInstallations(sess)
    /\ UNCHANGED <<store, originVer, task, calls, kin, kout, hook, client, web, conf, merge, app, cls>>

\* listInstallations resolves or rejects
ListInstallationsDone ==
    /\ sess.pc = "listInstallations"
    /\ \/ sess' = SessThrow(sess)
       \/ sess' = EnsureAuthenticated(sess)
    /\ UNCHANGED <<store, originVer, task, calls, kin, kout, hook, client, web, conf, merge, app, cls>>

NextSession ==
    \/ SessionRequest
    \/ FindByIdDone
    \/ CheckTokenDone
    \/ GetAppDone
    \/ ListInstallationsDone

SpecSession == InitSession /\ [][NextSession]_vars

(* ----------------------------- application ---------------------------- *)

\* connections a run sees
Conns == 1..MaxConns

AppIdle ==
    [pc |-> "constructed", listening |-> FALSE, connections |-> {},
     open |-> {}, opened |-> {}, ended |-> {}, destroyed |-> {}, log |-> <<>>]

InitApp ==
    /\ store = {}
    /\ originVer = [u \in FetchUrls |-> 0]
    /\ task = [p \in Procs |-> Idle]
    /\ calls = 0
    /\ kin = <<>>
    /\ kout = <<>>
    /\ hook = NoHook
    /\ client = NoClient
    /\ web = NoWeb
    /\ conf = NoConf
    /\ sess = NoSess
    /\ merge = NoMerge
    /\ app = AppIdle
    /\ cls = NoCls

\* server.on("connection"): the connection is tracked
OnConnection(a, conn) ==
    [a EXCEPT !.connections = @ \cup {conn}]

\* variant: a closed connection stays tracked
OnClose_Keep(a, conn) == a

\* conn.on("close"): the connection is tracked no more
OnClose(a, conn) ==
    [a EXCEPT !.connections = @ \ {conn}]

\* a step of stop() is done
Step(a, name) == [a EXCEPT !.log = Append(@, name)]

\* start() is called
AppStart ==
    /\ app.pc = "constructed"
    /\ app' = [app EXCEPT !.pc = "starting"]
    /\ UNCHANGED <<store, originVer, task, calls, kin, kout, hook, client, web, conf, sess, merge, cls>>

\* start() is over: the store connection, the classifier or the webhook app
\* has failed, or the server listens
AppStartDone ==
    /\ app.pc = "starting"
    /\ \/ app' = [app EXCEPT !.pc = "failed"]
       \/ app' = [app EXCEPT !.pc = "running", !.listening = TRUE]
    /\ UNCHANGED <<store, originVer, task, calls, kin, kout, hook, client, web, conf, sess, merge, cls>>

\* the listening server accepts a connection
Connect ==
    /\ app.listening
    /\ \E conn \in Conns \ app.opened :
          app' = OnConnection([app EXCEPT !.open = @ \cup {conn},
                                          !.opened = @ \cup {conn}], conn)
    /\ UNCHANGED <<store, originVer, task, calls, kin, kout, hook, client, web, conf, sess, merge, cls>>

\* a connection closes: by its peer, on the keep-alive timeout, or once
\* ended or destroyed
Close ==
    /\ \E conn \in app.open :
          app' = OnClose([app EXCEPT !.open = @ \ {conn}], conn)
    /\ UNCHANGED <<store, originVer, task, calls, kin, kout, hook, client, web, conf, sess, merge, cls>>

\* connections.forEach((connection) => connection.end())
EndConnections(a) ==
    [Step(a, "end") EXCEPT !.pc = "ended", !.ended = @ \cup a.connections]

\* stop() up to its first await: server.close when the server listens, the
\* first forEach when not
StopBegin ==
    /\ app.pc \in {"running", "failed"}
    /\ app' = IF app.listening
              THEN [Step(app, "close") EXCEPT !.pc = "closing",
                                              !.listening = FALSE]
              ELSE EndConnections(app)
    /\ UNCHANGED <<store, originVer, task, calls, kin, kout, hook, client, web, conf, sess, merge, cls>>

\* the callback of server.close: the server has emitted "close", which it
\* does once every connection has ended
StopClosed ==
    /\ app.pc = "closing"
    /\ app.open = {}
    /\ app' = [app EXCEPT !.pc = "closed"]
    /\ UNCHANGED <<store, originVer, task, calls, kin, kout, hook, client, web, conf, sess, merge, cls>>

\* after setImmediate: the connections are ended
StopEnd ==
    /\ app.pc = "closed"
    /\ app' = EndConnections(app)
    /\ UNCHANGED <<store, originVer, task, calls, kin, kout, hook, client, web, conf, sess, merge, cls>>

\* after setImmediate: connections.forEach((connection) => connection.destroy())
StopDestroy ==
    /\ app.pc = "ended"
    /\ app' = [Step(app, "destroy") EXCEPT !.pc = "destroyed",
                                           !.destroyed = @ \cup app.connections]
    /\ UNCHANGED <<store, originVer, task, calls, kin, kout, hook, client, web, conf, sess, merge, cls>>

\* after setImmediate: connections.clear(), and webhookApp.stop() is called
StopClear ==
    /\ app.pc = "destroyed"
    /\ app' = [Step(Step(app, "clear"), "webhookApp.stop")
                  EXCEPT !.pc = "webhook", !.connections = {}]
    /\ UNCHANGED <<store, originVer, task, calls, kin, kout, hook, client, web, conf, sess, merge, cls>>

\* webhookApp.stop() is over: mongoose.disconnect() is called
StopDisconnect ==
    /\ app.pc = "webhook"
    /\ app' = [Step(app, "disconnect") EXCEPT !.pc = "disconnect"]
    /\ UNCHANGED <<store, originVer, task, calls, kin, kout, hook, client, web, conf, sess, merge, cls>>

\* mongoose.disconnect() resolves or rejects, and stop() with it
StopDone ==
    /\ app.pc = "disconnect"
    /\ \E pc \in {"stopped", "stop failed"} : app' = [app EXCEPT !.pc = pc]
    /\ UNCHANGED <<store, originVer, task, calls, kin, kout, hook, client, web, conf, sess, merge, cls>>

NextApp ==
    \/ AppStart
    \/ AppStartDone
    \/ Connect
    \/ Close
    \/ StopBegin
    \/ StopClosed
    \/ StopEnd
    \/ StopDestroy
    \/ StopClear
    \/ StopDisconnect
    \/ StopDone

SpecApp == InitApp /\ [][NextApp]_vars

(* ------------------------------ classifier ----------------------------- *)

\* versions of the model at the model origin: the ETag of modelUri
ModelVersions == {"v1", "v2"}

\* `${latestModelVersion}.bin` in MODEL_DIR
ModelPath(version) == version

\* createFromLocal({ modelPath }) and createFromRemote({ config, modelUri }),
\* in a model directory that holds the files of earlier runs
Classifiers ==
    {[kind |-> "local", _modelPath |-> ModelPath("v1"), _fasttext |-> "null"],
     [kind |-> "remote", _modelPath |-> "null", _fasttext |-> "null"]}

NoInitialize ==
    [entered |-> "none", version |-> "none", existed |-> FALSE,
     log |-> <<>>, outcome |-> "none"]

ClsIdle ==
    [pc |-> "idle", kind |-> "local", _modelPath |-> "null", _fasttext |-> "null",
     files |-> {}, latest |-> "v1", call |-> NoInitialize,
     completed |-> FALSE, predicted |-> "none", predictedOn |-> FALSE]

InitClassifier ==
    /\ store = {}
    /\ originVer = [u \in FetchUrls |-> 0]
    /\ task = [p \in Procs |-> Idle]
    /\ calls = 0
    /\ kin = <<>>
    /\ kout = <<>>
    /\ hook = NoHook
    /\ client = NoClient
    /\ web = NoWeb
    /\ conf = NoConf
    /\ sess = NoSess
    /\ merge = NoMerge
    /\ app = NoApp
    /\ cls \in {[ClsIdle EXCEPT !.kind = c.kind, !._modelPath = c._modelPath,
                                !._fasttext = c._fasttext, !.files = files] :
                   c \in Classifiers, files \in SUBSET ModelVersions}

\* a call of initialize() or predict() raises
ClsRaise(c, message) ==
    [c EXCEPT !.pc = "idle", !.call.outcome = message]

\* one more outbound request or load of the call in hand
ClsStep(c, name) == [c EXCEPT !.call.log = Append(@, name)]

\* Classifier.initialize up to its await
ClassifierInitialize(c) ==
    IF c._fasttext # "null" THEN ClsRaise(c, "already initialized")
    ELSE IF c._modelPath = "null" THEN ClsRaise(c, "no model path")
    ELSE [ClsStep(c, "FastText.from") EXCEPT !.pc = "load"]

\* RemoteModelClassifier.initialize up to its first await
RemoteInitialize(c) ==
    IF c._fasttext # "null" THEN ClsRaise(c, "already initialized")
    ELSE [ClsStep(c, "HEAD") EXCEPT !.pc = "head"]

\* initialize() is called; the caller awaits it
Initialize ==
    /\ cls.pc = "idle"
    /\ LET c == [cls EXCEPT !.call = [NoInitialize EXCEPT
                                         !.entered = cls._fasttext]]
       IN cls' = IF cls.kind = "remote" THEN RemoteInitialize(c)
                 ELSE ClassifierInitialize(c)
    /\ UNCHANGED <<store, originVer, task, calls, kin, kout, hook, client, web, conf, sess, merge, app>>

\* _fetchRemoteModelVersion is over: the request fails, the answer has no
\* ETag, or the path is set and the file is looked for
HeadDone ==
    /\ cls.pc = "head"
    /\ \/ \E message \in {"fetch failed", "no ETag header found"} :
             cls' = ClsRaise(cls, message)
       \/ cls' = [cls EXCEPT !.pc = "access",
                             !._modelPath = ModelPath(cls.latest),
                             !.call.version = cls.latest]
    /\ UNCHANGED <<store, originVer, task, calls, kin, kout, hook, client, web, conf, sess, merge, app>>

\* variant: the model is fetched whether the file is there or not
OnExistsLocally_AlwaysFetch(c, exists) ==
    [ClsStep([c EXCEPT !.call.existed = exists], "GET") EXCEPT !.pc = "download"]

\* initialize once _existsLocally has answered
OnExistsLocally(c, exists) ==
    LET c1 == [c EXCEPT !.call.existed = exists]
    IN IF exists THEN ClassifierInitialize(c1)
       ELSE [ClsStep(c1, "GET") EXCEPT !.pc = "download"]

\* _existsLocally: fs.access on the file of the path
ExistsDone ==
    /\ cls.pc = "access"
    /\ cls' = OnExistsLocally(cls, cls._modelPath \in cls.files)
    /\ UNCHANGED <<store, originVer, task, calls, kin, kout, hook, client, web, conf, sess, merge, app>>

\* _fetchRemoteModel is over: the request fails and no file is made, the
\* stream breaks and a file is left, or the file is written
DownloadDone ==
    /\ cls.pc = "download"
    /\ \/ cls' = ClsRaise(cls, "fetch failed")
       \/ cls' = ClsRaise([cls EXCEPT !.files = @ \cup {cls._modelPath}],
                          "pipeline failed")
       \/ cls' = ClassifierInitialize(
                     [cls EXCEPT !.files = @ \cup {cls._modelPath}])
    /\ UNCHANGED <<store, originVer, task, calls, kin, kout, hook, client, web, conf, sess, merge, app>>

\* FastText.from rejects, or, the file being there, resolves, and initialize
\* with it
LoadDone ==
    /\ cls.pc = "load"
    /\ \/ cls' = ClsRaise(cls, "load failed")
       \/ /\ cls._modelPath \in cls.files
          /\ cls' = [cls EXCEPT !.pc = "idle", !._fasttext = cls._modelPath,
                                !.call.outcome = "initialized",
                                !.completed = TRUE]
    /\ UNCHANGED <<store, originVer, task, calls, kin, kout, hook, client, web, conf, sess, merge, app>>

\* Classifier.predict
ClassifierPredict(c) ==
    IF c._fasttext = "null" THEN "not initialized" ELSE "prediction"

\* predict() is called, at any moment
Predict ==
    /\ cls' = [cls EXCEPT !.predicted = ClassifierPredict(cls),
                          !.predictedOn = cls.completed]
    /\ UNCHANGED <<store, originVer, task, calls, kin, kout, hook, client, web, conf, sess, merge, app>>

\* a new model is put at modelUri
ModelPublish ==
    /\ \E version \in ModelVersions \ {cls.latest} :
          cls' = [cls EXCEPT !.latest = version]
    /\ UNCHANGED <<store, originVer, task, calls, kin, kout, hook, client, web, conf, sess, merge, app>>

NextClassifier ==
    \/ Initialize
    \/ HeadDone
    \/ ExistsDone
    \/ DownloadDone
    \/ LoadDone
    \/ Predict
    \/ ModelPublish

SpecClassifier == InitClassifier /\ [][NextClassifier]_vars

(* ------------------------------ properties ----------------------------- *)

\* the fetch has computed its key and gone on to the lookup
KeyComputed(t) == t.pc \in {"lookup", "request", "save"} \/ t.nReads > 0

\* C1: in a run of sequential fetches to one (url, identity) pair during
\* which the origin's resource does not change (and no document of the key
\* is evicted), every fetch after the first sends If-None-Match equal to the
\* ETag of the first response and returns the first response's payload.
C1_SequentialFetchesRevalidate ==
    \A p \in Procs :
        LET t == task[p]
        IN (t.after # NoFirst /\ ~t.tainted) =>
              /\ t.nReqs > 0 => t.inm = t.after.etag
              /\ t.result.kind = "return" => t.result.payload = t.after.payload

\* C2: for one url and two distinct authorization values, the
\* identity-scoped key computer returns two different keys.
C2_TenantIsolation ==
    (/\ kout # <<>>
     /\ kin[1].url = kin[2].url
     /\ kin[1].auth # kin[2].auth
     /\ kout[1]["auth"].ok
     /\ kout[2]["auth"].ok)
       => kout[1]["auth"].key # kout[2]["auth"].key

C2_Witness ==
    /\ kout # <<>>
    /\ kin[1].url = kin[2].url
    /\ kin[1].auth # kin[2].auth
    /\ kout[1]["auth"].ok
    /\ kout[2]["auth"].ok
    /\ kin[1].headers.rep # kin[2].headers.rep

\* C3: two conditional fetches issued by clients of the hierarchy with the
\* same url and different Authorization header values use different cache
\* keys for the CacheStore lookup.
C3_HierarchyKeysDifferPerIdentity ==
    \A p, q \in Procs :
        (/\ KeyComputed(task[p])
         /\ KeyComputed(task[q])
         /\ task[p].url = task[q].url
         /\ Prop(task[p].headers.entries, "Authorization")
               # Prop(task[q].headers.entries, "Authorization"))
           => task[p].key # task[q].key

\* C4: the CacheStore holds at most one record per key, under every
\* interleaving of concurrent fetches.
C4_OneRecordPerKey ==
    \A r1, r2 \in store : r1.key = r2.key => r1 = r2

\* C5: a 2xx response without an ETag causes no CacheStore write and its
\* parsed payload is returned; no If-None-Match is ever derived from such a
\* response, and every stored record has a non-empty etag.
C5_NoEtagPassthrough ==
    /\ \A r \in store : r.etag # NullStr /\ r.etag # <<>>
    /\ \A p \in Procs :
          LET t == task[p]
          IN /\ (t.resp.status \in 200..299 /\ t.resp.etag \in {NullStr, <<>>})
                   => /\ t.pc = "done"
                      /\ t.result = Return(t.resp.payload)
                      /\ t.nWrites = 0
             /\ t.nReqs > 0 /\ t.rec # NoRec
                   => t.inm # NullStr /\ t.inm # <<>>
             /\ t.nReqs > 0 /\ t.rec = NoRec => t.inm = NullStr

C5_Witness ==
    \E p \in Procs :
        /\ task[p].pc = "done"
        /\ task[p].resp.status = 200
        /\ task[p].resp.etag = NullStr
        /\ task[p].result.kind = "return"
        /\ \E q \in Procs \ {p} : task[q].pc = "request" /\ task[q].key = task[p].key
                                    /\ task[q].inm = NullStr

\* C6: a 304 answer to a fetch whose lookup found no record makes the fetch
\* raise; it returns no payload.
C6_NotModifiedWithoutRecordRaises ==
    \A p \in Procs :
        (task[p].resp.status = 304 /\ task[p].rec = NoRec)
           => task[p].pc = "done" /\ task[p].result = Raise

C6_Witness ==
    \E p \in Procs :
        task[p].resp.status = 304 /\ task[p].rec = NoRec /\ task[p].pc = "done"

\* a fetch whose response is a failure status (neither 2xx nor 304)
FailedResponse(t) == t.resp.status # 0 /\ t.resp.status \notin 200..299
                        /\ t.resp.status # 304

\* C7: a non-2xx, non-304 response makes the fetch raise, with no CacheStore
\* write and every existing record left as it was.
C7_FailureRaisesWithoutWrite ==
    /\ [](\A p \in Procs :
             FailedResponse(task[p])
                => /\ task[p].pc = "done"
                   /\ task[p].result = Raise
                   /\ task[p].nWrites = 0)
    /\ [][\A p \in Procs :
             (~FailedResponse(task[p]) /\ FailedResponse(task'[p]))
                => store' = store]_vars

C7_Witness ==
    \E p \in Procs :
        /\ FailedResponse(task[p])
        /\ task[p].rec # NoRec
        /\ task[p].rec \in store

\* C8: a 2xx response with an ETag, with no other operation interleaved:
\* once the fetch returns, the lookup for its key yields a record holding
\* the etag and payload of this response, and the fetch returns that payload.
C8_UpsertThenLookup ==
    [][\A p \in Procs :
          (task[p].pc = "save" /\ task'[p].pc = "done" /\ ~task[p].tainted)
             => /\ task'[p].result = Return(task[p].resp.payload)
                /\ \A r \in FindOne(store', task[p].key) :
                      /\ r.etag = task[p].resp.etag
                      /\ r.payload = task[p].resp.payload]_vars

\* C9: a fetch whose key computation succeeds does exactly one CacheStore
\* lookup and one outbound request, at most one CacheStore write, and is
\* over once a failure or a 304 has come in.
C9_OneReadOneRequestAtMostOneWrite ==
    \A p \in Procs :
        LET t == task[p]
        IN /\ t.nReads <= 1 /\ t.nReqs <= 1 /\ t.nWrites <= 1
           /\ (t.pc = "done" /\ t.key # <<>>) => t.nReads = 1 /\ t.nReqs = 1
           /\ (t.resp.status = 304 \/ FailedResponse(t)) => t.pc = "done"
           /\ (t.resp.status = 304 \/ FailedResponse(t)) => t.nWrites = 0

C9_Witness ==
    /\ \E p \in Procs : task[p].pc = "done" /\ task[p].nWrites = 1
    /\ \E p \in Procs : task[p].pc = "done" /\ FailedResponse(task[p])
                          /\ task[p].nReqs = 1

\* the request options hold no authorization header
NoCredential(headers) ==
    \/ headers.rep = "none"
    \/ \A i \in 1..Len(headers.entries) : headers.entries[i].name \notin AuthNames

\* C10: an identity-scoped key computation on a request with no headers or
\* no authorization header raises; the fetch does no CacheStore lookup and
\* no outbound request, and no base key is used in its place.
C10_MissingCredentialFailsFast ==
    \A p \in Procs :
        LET t == task[p]
        IN (t.pc # "idle" /\ t.computer = "auth" /\ NoCredential(t.headers))
              => /\ t.pc = "done"
                 /\ t.result = Raise
                 /\ t.nReads = 0
                 /\ t.nReqs = 0
                 /\ t.key = <<>>

C10_Witness ==
    /\ task[1].pc = "done" /\ task[1].computer = "auth"
    /\ task[1].headers = NoHeaders
    /\ task[2].pc = "done" /\ task[2].computer = "auth"
    /\ task[2].headers = BaseHeaders(<<>>)

\* C11: two fetches for one key that ran concurrently and both got a 2xx
\* response with an ETag: once the later of the two upserts is done, the
\* lookup for the key yields the etag and payload that upsert wrote.
C11_LastWriterWins ==
    [][\A p \in Procs :
          (/\ task[p].pc = "save" /\ task'[p].pc = "done"
           /\ task[p].raced
           /\ (task[p].rec # NoRec => \E r \in store : r.id = task[p].rec.id))
             => \A r \in FindOne(store', task[p].key) :
                   /\ r.etag = task[p].resp.etag
                   /\ r.payload = task[p].resp.payload]_vars

\* C12: a payload a fetch returns, from the 2xx body or from the record on
\* a 304, is the origin's representation of the url at a version current at
\* some instant since the fetch issued its request, never an older one.
C12_NeverOlderThanRequest ==
    [][\A p \in Procs :
          (/\ task[p].pc \in {"request", "save"} /\ task'[p].pc = "done"
           /\ task'[p].result.kind = "return")
             => /\ task'[p].result.payload.url = task[p].url
                /\ task'[p].result.payload.ver >= task[p].reqVer
                /\ task'[p].result.payload.ver <= originVer'[task[p].url]]_vars

\* a fetch issued after the origin replaced the resource returns, on a 304,
\* the record's payload of the current version
C12_Witness ==
    \E p \in Procs :
        /\ task[p].pc = "done" /\ task[p].result.kind = "return"
        /\ task[p].resp.status = 304
        /\ task[p].rec.etag = Etag(task[p].url, 1)
        /\ task[p].result.payload.ver = 1

\* the outbound calls of one kind, in the order made
CallsOf(log, name) == SelectSeq(log, LAMBDA c : c.call = name)

\* the positions in the log of the calls of one kind
Positions(log, name) == {i \in 1..Len(log) : log[i].call = name}

\* the delivery of an issues.opened event has been handled to its end
Over(h) == h.pc = "done" /\ h.event = "issues.opened" /\ h.minted

\* C13: issues.opened, issues:write and single_file read granted, a label
\* predicted with positive similarity and enabled in the repository config:
\* exactly one labels write, of the issue's labels followed by the label's
\* text, then exactly one token revocation, and no config write.
C13_LabelThenRevoke ==
    (/\ Over(hook)
     /\ Permission(hook.permissions, "issues") = "write"
     /\ Permission(hook.permissions, "single_file") \in {"read", "write"}
     /\ hook.config # NoConfig
     /\ hook.prediction.similarity > 0
     /\ hook.prediction.key \in LabelKeys
     /\ hook.config.labels[hook.prediction.key].enabled)
       => /\ CallsOf(hook.log, "setIssueLabels")
               = << SetIssueLabelsCall(hook.issueLabels
                       \o <<hook.config.labels[hook.prediction.key].text>>) >>
          /\ Len(CallsOf(hook.log, "revokeAccessToken")) = 1
          /\ \A i \in Positions(hook.log, "setIssueLabels"),
                j \in Positions(hook.log, "revokeAccessToken") : i < j
          /\ Positions(hook.log, "createConfig") = {}
          /\ Positions(hook.log, "mergeConfig") = {}

\* C14: the minted token lacks issues:write: the handler is over with the
\* token request as its only outbound call.
C14_NoIssuesWriteNoAction ==
    (Over(hook) /\ Permission(hook.permissions, "issues") # "write")
       => hook.log = << Call("createInstallationAccessToken") >>

C14_Witness ==
    /\ Over(hook)
    /\ Permission(hook.permissions, "issues") = "read"
    /\ Permission(hook.permissions, "single_file") = "write"
    /\ hook.status = 200

\* C15: issues:write granted, no read permission on single_file, a label
\* predicted with positive similarity: no config read, the default
\* configuration decides the label, and the labels write and the token
\* revocation are made.
C15_NoConfigReadDefaultsUsed ==
    (/\ Over(hook)
     /\ Permission(hook.permissions, "issues") = "write"
     /\ Permission(hook.permissions, "single_file") \notin {"read", "write"}
     /\ hook.prediction.similarity > 0)
       => /\ Positions(hook.log, "getConfig") = {}
          /\ hook.config = RepositoryConfigDefaults
          /\ CallsOf(hook.log, "setIssueLabels")
               = << SetIssueLabelsCall(hook.issueLabels
                       \o <<RepositoryConfigDefaults.labels[hook.prediction.key].text>>) >>
          /\ Len(CallsOf(hook.log, "revokeAccessToken")) = 1

\* C16 as stated: a delivery whose signature does not match is answered 400
\* and causes no outbound call.
C16_BadSignature400 ==
    (hook.pc = "done" /\ ~hook.signed) => hook.status = 400 /\ hook.log = <<>>

\* the whitelist a delivery met
RangesAt(h) ==
    IF h.at = "started"
    THEN HookRanges \cup (IF h.production THEN {} ELSE {LocalRange})
    ELSE {}

\* C16 as amended: a delivery whose signature does not match causes no
\* outbound call; it is answered 400 when its sender is on the whitelist,
\* and when not it is turned away before the signature is looked at: 403,
\* or 500 for a sender address that does not parse.
C16_BadSignatureRejected ==
    (hook.pc = "done" /\ ~hook.signed)
       => /\ hook.log = <<>>
          /\ hook.status = IF ~IpParses(hook.ip) THEN 500
                           ELSE IF \E ipRange \in RangesAt(hook) : hook.ip \in ipRange
                           THEN 400 ELSE 403

C16_Witness ==
    hook.pc = "done" /\ ~hook.signed /\ hook.ip = "hook1" /\ hook.status = 400

\* C17: a minted installation token is revoked once the work using it is
\* over, on every path of the handler.
C17_MintedTokenRevoked ==
    Over(hook) => Len(CallsOf(hook.log, "revokeAccessToken")) = 1

\* C18: once revokeAccessToken has completed on an installation client,
\* every further call on it, or on a repository client that shares its
\* token, ends in an error.
C18_RevokedClientUnusable ==
    [][client.revoked => client'.last.outcome.kind = "error"]_vars

\* C19: canRead(resource) is true exactly when the map gives the resource
\* "read" or "write", canWrite(resource) exactly when it gives "write"; an
\* absent resource and "none" give false for both, and canWrite implies
\* canRead.
C19_CanReadCanWrite ==
    client.last.method = "can" =>
        LET level == IF client.last.arg \in DOMAIN client.permissions
                     THEN client.permissions[client.last.arg] ELSE "absent"
        IN /\ client.last.outcome.read = (level \in {"read", "write"})
           /\ client.last.outcome.write = (level = "write")
           /\ client.last.outcome.write => client.last.outcome.read
           /\ level \in {"absent", "none"} =>
                 ~client.last.outcome.read /\ ~client.last.outcome.write

C19_Witness ==
    /\ client.last.method = "can"
    /\ client.last.arg = "issues"
    /\ "issues" \in DOMAIN client.permissions
    /\ client.permissions["issues"] = "write"
    /\ client.last.outcome.read /\ client.last.outcome.write

\* C20 as stated: a config update whose submitted sha differs from the sha
\* of the config document the origin holds is answered 409, asks for no
\* installation token, writes no config and leaves the origin's document as
\* it is.
C20_ShaMismatchConflict ==
    (/\ web.pc = "done" /\ web.handled
     /\ web.seen # ""
     /\ web.body.sha # web.seen)
       => /\ web.status = 409
          /\ \A i \in 1..Len(web.log) :
                web.log[i] \notin {"createInstallationAccessToken", "createConfig",
                                   "mergeConfig"}
          /\ ~web.wrote

\* C20 as amended: a config update whose submitted sha differs from the sha
\* of the config document prepareRepo read for the request is answered 409,
\* asks for no installation token, writes no config and leaves the origin's
\* document as it is.
C20_ShaMismatchWithReadConflict ==
    (/\ web.pc = "done" /\ web.handled
     /\ web.answer.status = 200
     /\ web.body.sha # web.answer.sha)
       => /\ web.status = 409
          /\ web.log = <<"getRepository", "getConfig">>
          /\ ~web.wrote

C20_Witness ==
    /\ web.pc = "done" /\ web.handled
    /\ web.answer.sha = "s1"
    /\ web.body.sha = "s2"
    /\ web.origin.sha = "s1"
    /\ web.status = 409

\* C21: the config file is committed at the origin (the write of the other
\* of two concurrent updates) after a request has read it and before that
\* request's PUT is answered: the PUT does not replace the origin's document
\* and the request is answered with the conflict response, 409.
C21_StaleWriteConflict ==
    [][(/\ web.pc = "merge" /\ web'.pc = "done"
        /\ web.origin.sha # web.answer.sha)
          => /\ web'.status = 409
             /\ web'.origin = web.origin
             /\ ~web'.wrote]_vars

\* C22: the origin answers the read of the config file with 404: getConfig
\* does not fail, it returns the default configuration with exists = false
\* and an empty sha, and the issue-opened handler goes on with the defaults.
C22_AbsentConfigFileGivesDefaults ==
    [][(hook.pc = "config" /\ hook'.configStatus = 404)
          => /\ hook'.pc = "predict"
             /\ ~hook'.thrown
             /\ hook'.config = RepositoryConfigDefaults]_vars

\* C23: the json getConfig returns for an existing file holds version,
\* enabled and the labels bug, enhancement and question, each with enabled
\* and text; a key the stored document lacks has the default value, a key it
\* holds keeps the stored value, and a document that fails the schema gives
\* the defaults and nothing else.
C23_DefaultsFillMissingKeys ==
    conf.pc = "done" =>
        LET d == conf.parsed
            j == conf.json
        IN /\ j.kind = "object"
           /\ DOMAIN j.fields = {"version", "enabled", "labels"}
           /\ j.fields["labels"].kind = "object"
           /\ DOMAIN j.fields["labels"].fields = LabelKeys
           /\ \A l \in LabelKeys :
                 /\ j.fields["labels"].fields[l].kind = "object"
                 /\ DOMAIN j.fields["labels"].fields[l].fields = {"enabled", "text"}
           /\ ~Validate(d) => j = DefaultsDoc
           /\ Validate(d) =>
                 /\ \A k \in {"version", "enabled"} :
                       j.fields[k] = IF k \in DOMAIN d.fields THEN d.fields[k]
                                     ELSE DefaultsDoc.fields[k]
                 /\ \A l \in LabelKeys, f \in {"enabled", "text"} :
                       j.fields["labels"].fields[l].fields[f] =
                          IF /\ "labels" \in DOMAIN d.fields
                             /\ l \in DOMAIN d.fields["labels"].fields
                             /\ f \in DOMAIN d.fields["labels"].fields[l].fields
                          THEN d.fields["labels"].fields[l].fields[f]
                          ELSE DefaultsDoc.fields["labels"].fields[l].fields[f]

\* a stored document that holds bug.enabled = false and nothing else
C23_Witness ==
    /\ conf.pc = "done"
    /\ conf.parsed = Obj([k \in {"labels"} |->
                            Obj([l \in {"bug"} |->
                                  Obj([f \in {"enabled"} |-> Bool(FALSE)])])])
    /\ conf.json.fields["labels"].fields["bug"].fields["enabled"] = Bool(FALSE)
    /\ conf.json.fields["labels"].fields["bug"].fields["text"] = Str("bug")
    /\ conf.json.fields["enabled"] = Bool(TRUE)

\* checkToken has answered, and the token was rejected or is another user's
TokenRefused(s) ==
    /\ s.response # NoAnswer
    /\ \/ ~Ok(s.response.status)
       \/ s.response.id # s.user.githubId

\* C24: session restoration finds the stored access token rejected by
\* checkToken, or held by a user other than the stored githubId: the request
\* is not authenticated, no OAuth client is attached to it, the token check
\* is made once, and no fetch is made with that token.
C24_RefusedTokenUnauthenticated ==
    TokenRefused(sess) =>
        /\ ~sess.authenticated
        /\ ~sess.githubOAuthClient
        /\ Cardinality({i \in 1..Len(sess.log) : sess.log[i] = "checkToken"}) = 1
        /\ \A i \in 1..Len(sess.log) : sess.log[i] # "listInstallations"
        /\ sess.pc = "done" => sess.status \in {302, 500}

\* the token is a valid one of another user; the request ends at /login
C24_Witness ==
    /\ sess.pc = "done"
    /\ sess.response.status = 200
    /\ sess.user.githubId = "g1"
    /\ sess.response.id = "g2"
    /\ sess.status = 302
    /\ sess.log = <<"checkToken", "getApp">>

\* C25: a fetch that ends in a 304 makes no CacheStore write: it is over
\* with the response, and the record of its key and every other record are
\* as they were.
C25_NotModifiedWritesNothing ==
    /\ [](\A p \in Procs :
             task[p].resp.status = 304
                => task[p].pc = "done" /\ task[p].nWrites = 0)
    /\ [][\A p \in Procs :
             (task[p].resp.status # 304 /\ task'[p].resp.status = 304)
                => store' = store]_vars

\* a 304 served from a record that is in the store
C25_Witness ==
    \E p \in Procs :
        /\ task[p].pc = "done"
        /\ task[p].resp.status = 304
        /\ task[p].rec \in store
        /\ task[p].result = Return(task[p].rec.payload)

\* the names of the headers of a request
HeaderNames(headers) == {headers.entries[i].name : i \in 1..Len(headers.entries)}

\* the headers of the outbound request of a fetch: those made of the
\* caller's headers and of the record read at lookup
Sent(t) == SentHeaders(t.headers, t.rec)

\* C26: the outbound request of a fetch carries If-None-Match exactly when
\* the lookup returned a record, with that record's etag as its value; the
\* caller's headers, Authorization among them, are sent as given, with and
\* without a record.
C26_IfNoneMatchIffRecord ==
    \A p \in Procs :
        LET t == task[p]
        IN t.nReqs > 0 =>
              /\ ("If-None-Match" \in HeaderNames(Sent(t))) <=> (t.rec # NoRec)
              /\ t.inm = Prop(Sent(t).entries, "If-None-Match")
              /\ t.rec # NoRec => t.inm = t.rec.etag
              /\ HeaderNames(Sent(t)) \ {"If-None-Match"} = HeaderNames(t.headers)
              /\ \A name \in HeaderNames(t.headers) :
                    Prop(Sent(t).entries, name) = Prop(t.headers.entries, name)

\* two requests for one url are out, one with a record and one without
C26_Witness ==
    \E p, q \in Procs :
        /\ task[p].pc = "request" /\ task[p].rec # NoRec
        /\ Prop(Sent(task[p]).entries, "Authorization") # NullStr
        /\ task[q].pc = "request" /\ task[q].rec = NoRec
        /\ Prop(Sent(task[q]).entries, "Authorization") # NullStr

\* C27: for one url and one authorization value, the identity-scoped key
\* computer gives the same outcome whether the headers are an array of
\* entries, a Headers object or a plain object, whatever the letter case of
\* the header's name.
C27_RepresentationsUniform ==
    (/\ kout # <<>>
     /\ kin[1].url = kin[2].url
     /\ kin[1].auth = kin[2].auth
     /\ kin[1].auth # NullStr)
       => kout[1]["auth"] = kout[2]["auth"]

\* C30: two requests that differ in the url or in the authorization value
\* get different identity-scoped keys, the digest being injective on its
\* input.
C30_DistinctPairsDistinctKeys ==
    (/\ kout # <<>>
     /\ <<kin[1].url, kin[1].auth>> # <<kin[2].url, kin[2].auth>>
     /\ kout[1]["auth"].ok
     /\ kout[2]["auth"].ok)
       => kout[1]["auth"].key # kout[2]["auth"].key

\* C28: the payload a fetch returns on a 304 is the payload of the record
\* read at its lookup, the one stored with the etag it sent in
\* If-None-Match, whatever has become of the key's record in the store since.
C28_NotModifiedServesSnapshot ==
    \A p \in Procs :
        LET t == task[p]
        IN (t.pc = "done" /\ t.resp.status = 304 /\ t.rec # NoRec)
              => /\ t.result = Return(t.rec.payload)
                 /\ t.inm = t.rec.etag

\* a 304 served from a record that has left the store since the lookup
C28_Witness ==
    \E p \in Procs :
        /\ task[p].pc = "done"
        /\ task[p].resp.status = 304
        /\ task[p].rec # NoRec
        /\ ~\E r \in store : r.id = task[p].rec.id
        /\ task[p].result = Return(task[p].rec.payload)

\* C29: every stored record holds an etag and a payload that the origin
\* sent together in one response to the url of the record's key.
C29_RecordHoldsOneResponse ==
    \A r \in store :
        \E u \in FetchUrls, v \in 0..MaxVer :
            /\ r.key = HashUpdate(BaseCacheKeyComponents(u))
            /\ r.etag = Etag(u, v)
            /\ r.payload = Payload(u, v)

\* a document updated in place by one fetch while another fetch that read
\* the same document is about to save a response of its own
C29_Witness ==
    \E p, q \in Procs :
        /\ task[p].pc = "done" /\ task[p].nWrites = 1 /\ task[p].rec # NoRec
        /\ task[q].pc = "save" /\ task[q].rec.id = task[p].rec.id
        /\ \E r \in store : r.id = task[p].rec.id /\ r.etag = task[p].resp.etag
                              /\ r.etag # task[p].rec.etag

\* the predicted label's entry in the effective configuration is enabled
LabelEnabled(h) ==
    /\ h.prediction.key \in DOMAIN h.config.labels
    /\ h.config.labels[h.prediction.key].enabled

\* C31: issues:write granted: a labels write is issued only for a prediction
\* of positive similarity whose label is enabled in the effective
\* configuration; once the prediction is there and one of the two fails,
\* there is no labels write and exactly one token revocation call.
C31_LabelsWriteOnlyWhenPositiveAndEnabled ==
    /\ Positions(hook.log, "setIssueLabels") # {}
          => /\ Permission(hook.permissions, "issues") = "write"
             /\ hook.prediction.similarity > 0
             /\ LabelEnabled(hook)
    /\ (/\ Permission(hook.permissions, "issues") = "write"
        /\ hook.prediction # NoPrediction
        /\ ~(hook.prediction.similarity > 0 /\ LabelEnabled(hook)))
          => /\ Positions(hook.log, "setIssueLabels") = {}
             /\ Len(CallsOf(hook.log, "revokeAccessToken")) = 1

C31_Witness ==
    /\ Over(hook)
    /\ hook.status = 200
    /\ hook.prediction.similarity > 0
    /\ hook.prediction.key = "bug"
    /\ ~hook.config.labels["bug"].enabled
    /\ Positions(hook.log, "setIssueLabels") = {}
    /\ Len(CallsOf(hook.log, "revokeAccessToken")) = 1

\* C32: the repository configuration read by the handler has its top-level
\* enabled field set to false: no labels write is made.
C32_DisabledRepositoryNotLabelled ==
    (/\ Positions(hook.log, "getConfig") # {}
     /\ hook.config # NoConfig
     /\ ~hook.config.enabled)
       => Positions(hook.log, "setIssueLabels") = {}

\* C33: the update handler has run: with no sha conflict, a submission that
\* fails the schema is answered 400 with no token request and no config
\* write; a token without single_file:write is answered 403 with no create
\* and no merge; 409 comes before 400 and 400 before 403.
C33_ChecksInOrder ==
    /\ (web.handled /\ ~ShaConflict(web.config, web.body.sha)
          /\ web.body.update = "invalid")
          => /\ web.pc = "done" /\ web.status = 400
             /\ \A i \in 1..Len(web.log) :
                   web.log[i] \notin {"createInstallationAccessToken",
                                      "createConfig", "mergeConfig"}
             /\ ~web.wrote
    /\ (web.minted /\ ~CanWrite(web.permissions, "single_file"))
          => /\ web.pc = "done" /\ web.status = 403
             /\ web.body.update # "invalid"
             /\ \A i \in 1..Len(web.log) :
                   web.log[i] \notin {"createConfig", "mergeConfig"}
             /\ ~web.wrote
    /\ (web.handled /\ ShaConflict(web.config, web.body.sha) /\ ~web.wrote)
          => /\ web.pc = "done" /\ web.status = 409
             /\ \A i \in 1..Len(web.log) :
                   web.log[i] # "createInstallationAccessToken"

C33_Witness ==
    /\ web.pc = "done"
    /\ web.status = 403
    /\ web.config.exists
    /\ web.body.sha = web.config.sha
    /\ Permission(web.permissions, "single_file") = "read"
    /\ web.log = <<"getRepository", "getConfig", "createInstallationAccessToken">>

\* C34: mergeConfig with a sha and an updated configuration that, filled in
\* with the defaults, is the current configuration: no outbound write, and
\* the current json, yaml and sha come back; an updated configuration that
\* fails the schema raises with no outbound call.
C34_NoChangeNoWrite ==
    merge.pc # "call" =>
        /\ (/\ merge.sha # ""
            /\ Validate(merge.updatedRepositoryConfig)
            /\ DefaultsDeep(merge.updatedRepositoryConfig, DefaultsDoc)
                  = merge.repositoryConfig)
              => /\ merge.pc = "done"
                 /\ merge.log = <<>>
                 /\ merge.outcome = "return"
                 /\ merge.json = merge.repositoryConfig
                 /\ merge.yaml = merge.repositoryConfigYaml
                 /\ merge.newSha = merge.sha
        /\ ~Validate(merge.updatedRepositoryConfig)
              => /\ merge.pc = "done"
                 /\ merge.log = <<>>
                 /\ merge.outcome = "raise"

\* bug.enabled = false is submitted again for a file that holds it
C34_Witness ==
    /\ merge.pc = "done"
    /\ merge.sha = "s1"
    /\ merge.updatedRepositoryConfig
          = Obj([k \in {"labels"} |->
                  Obj([l \in {"bug"} |-> Obj([f \in {"enabled"} |-> Bool(FALSE)])])])
    /\ merge.repositoryConfig.fields["labels"].fields["bug"].fields["enabled"]
          = Bool(FALSE)
    /\ merge.repositoryConfig # DefaultsDoc
    /\ merge.outcome = "return"
    /\ merge.log = <<>>
    /\ merge.json = merge.repositoryConfig

\* C35: the whitelist is empty until start() has completed and from stop()
\* on, and a delivery that comes in then is answered 403 and causes no
\* outbound call; a delivery is verified and dispatched only when its
\* sender is on the whitelist it meets.
C35_WhitelistGuardsDeliveries ==
    /\ hook.phase \in {"new", "starting", "failed", "stopped"}
          => hook.ipRanges = {}
    /\ (hook.pc # "idle" /\ hook.at # "started")
          => hook.status = 403 /\ hook.log = <<>>
    /\ (hook.pc # "idle" /\ hook.status \in {200, 400})
          => \E ipRange \in RangesAt(hook) : hook.ip \in ipRange

\* the steps of stop(), in the order of the code
StopSteps ==
    <<"close", "end", "destroy", "clear", "webhookApp.stop", "disconnect">>

\* s is the beginning of t
IsPrefix(s, t) == Len(s) <= Len(t) /\ \A i \in 1..Len(s) : s[i] = t[i]

ClsCalls(c, name) == {i \in 1..Len(c.call.log) : c.call.log[i] = name}

\* C37: predict raises "not initialized" unless an initialize() has completed
\* before it; initialize() on an initialized classifier raises "already
\* initialized", asks for nothing and leaves the loaded model as it was; the
\* remote classifier fetches the model only when the file of the latest
\* version is not there.
C37_ClassifierLifecycle ==
    /\ cls.predicted # "none"
          => (cls.predicted = "not initialized" <=> ~cls.predictedOn)
    /\ (cls.pc = "idle" /\ cls.call.entered \notin {"none", "null"})
          => /\ cls.call.outcome = "already initialized"
             /\ cls.call.log = <<>>
             /\ cls._fasttext = cls.call.entered
    /\ cls.call.outcome = "already initialized" => cls.completed
    /\ ClsCalls(cls, "GET") # {}
          => /\ cls.kind = "remote"
             /\ ~cls.call.existed
             /\ cls.call.version \in ModelVersions
             /\ cls._modelPath = ModelPath(cls.call.version)
             /\ Cardinality(ClsCalls(cls, "GET")) = 1

\* the file of the latest version is there: it is loaded without a fetch,
\* and predict answers
C37_Witness ==
    /\ cls.kind = "remote"
    /\ cls.pc = "idle"
    /\ cls.call.outcome = "initialized"
    /\ cls.call.existed
    /\ cls.call.log = <<"HEAD", "FastText.from">>
    /\ cls._fasttext = "v2"
    /\ cls.predicted = "prediction"

====
